---- MODULE Spec2Model ----
(***************************************************************************)
(* A model of the openai-json reconciliation pipeline:                     *)
(*   - DataManager (data_manager.py): the accumulated result partition,    *)
(*   - HeuristicProcessor (heuristic_processor.py),                        *)
(*   - MachineLearningProcessor (ml_processor.py),                         *)
(*   - SchemaHandler (schema_handler.py),                                  *)
(*   - OpenAI_JSON (openai_json.py): the client that chains them.          *)
(*                                                                         *)
(* Python dicts are functions with a finite domain, lists are sequences.   *)
(***************************************************************************)
EXTENDS Integers, Sequences, FiniteSets, TLC

VARIABLES
    data_manager,   \* DataManager: [results, matched, unmatched, errors]
    dm_output,      \* the last finalize_output call and what it returned
    schema_handler, \* SchemaHandler: [original_schema, normalized_schema, key_mapping, ...]
    hp_call,        \* the last HeuristicProcessor.process call: its data and outcome
    ml_call,        \* the last MachineLearningProcessor.process call
    client,         \* OpenAI_JSON: [unmatched_data, errors] and the calls made to the API
    requests,       \* the request()/async_request() calls: position, arguments, outcome
    sh_calls,       \* the submit_schema and add_field calls made on the SchemaHandler
    nt_call         \* a text and what the normalize_text calls made of it

vars == <<data_manager, dm_output, schema_handler, hp_call, ml_call, client, requests,
          sh_calls, nt_call>>

\* a component no call has been made on
NotCalled == [called |-> FALSE]

(***************************************************************************)
(* Dict helpers                                                            *)
(***************************************************************************)
EmptyDict == <<>>

Keys(d) == DOMAIN d

\* d restricted to the keys in S
Restrict(d, S) == [k \in (DOMAIN d) \cap S |-> d[k]]

\* dict.update(e): the entries of e win
DictUpdate(d, e) ==
    [k \in (DOMAIN d) \cup (DOMAIN e) |-> IF k \in DOMAIN e THEN e[k] ELSE d[k]]

\* every dict from a subset of keys to vals
DictsOver(keys, vals) == UNION {[S -> vals] : S \in SUBSET keys}

\* the empty dict and every dict of one entry
SmallDicts(keys, vals) ==
    {EmptyDict} \cup {[x \in {k} |-> val] : k \in keys, val \in vals}

(***************************************************************************)
(* ResultData (data_manager.py:6-21)                                       *)
(***************************************************************************)
\* ResultData.__setattr__: a list of dicts becomes one dict, later entries win
RECURSIVE ListToDict(_)
ListToDict(l) ==
    IF l = <<>> THEN EmptyDict
    ELSE DictUpdate(ListToDict(SubSeq(l, 1, Len(l) - 1)), l[Len(l)])

\* ResultData(matched, unmatched, errors) with dict arguments
ResultData(m, u, e) ==
    [kind |-> "ResultData", matched |-> m, unmatched |-> u, errors |-> e]

(***************************************************************************)
(* DataManager (data_manager.py:24-147)                                    *)
(***************************************************************************)
DataManagerInit ==
    [results |-> <<>>, matched |-> EmptyDict, unmatched |-> EmptyDict,
     errors |-> EmptyDict]

\* _update_ResultData with the overwrite of line 57 skipped for a key that is
\* already matched (first write wins)
_update_FirstWriteWins(dm, last_result) ==
    LET matched1   == DictUpdate(last_result.matched, dm.matched)
        unmatched1 == Restrict(dm.unmatched,
                               Keys(dm.unmatched) \ Keys(last_result.matched))
        errors1    == Restrict(dm.errors,
                               Keys(dm.errors) \ Keys(last_result.matched))
        addU       == {k \in Keys(last_result.unmatched) :
                          k \notin Keys(matched1) /\ k \notin Keys(unmatched1)}
        unmatched2 == DictUpdate(unmatched1, Restrict(last_result.unmatched, addU))
        unmatched3 == Restrict(unmatched2, Keys(last_result.unmatched))
        addE       == {k \in Keys(last_result.errors) :
                          k \notin Keys(matched1) /\ k \notin Keys(unmatched3)}
        errors2    == DictUpdate(errors1, Restrict(last_result.errors, addE))
        errors3    == Restrict(errors2, Keys(last_result.errors))
    IN  [dm EXCEPT !.matched = matched1, !.unmatched = unmatched3,
                   !.errors = errors3]

\* _update_ResultData without the clean-up loop of lines 74-79
_update_NoUnmatchedCleanup(dm, last_result) ==
    LET matched1   == DictUpdate(dm.matched, last_result.matched)
        unmatched1 == Restrict(dm.unmatched,
                               Keys(dm.unmatched) \ Keys(last_result.matched))
        errors1    == Restrict(dm.errors,
                               Keys(dm.errors) \ Keys(last_result.matched))
        addU       == {k \in Keys(last_result.unmatched) :
                          k \notin Keys(matched1) /\ k \notin Keys(unmatched1)}
        unmatched2 == DictUpdate(unmatched1, Restrict(last_result.unmatched, addU))
        addE       == {k \in Keys(last_result.errors) :
                          k \notin Keys(matched1) /\ k \notin Keys(unmatched2)}
        errors2    == DictUpdate(errors1, Restrict(last_result.errors, addE))
        errors3    == Restrict(errors2, Keys(last_result.errors))
    IN  [dm EXCEPT !.matched = matched1, !.unmatched = unmatched2,
                   !.errors = errors3]

\* _update_ResultData without the `key not in self.matched` guards of
\* lines 70 and 84
_update_MatchedUnguarded(dm, last_result) ==
    LET matched1   == DictUpdate(dm.matched, last_result.matched)
        unmatched1 == Restrict(dm.unmatched,
                               Keys(dm.unmatched) \ Keys(last_result.matched))
        errors1    == Restrict(dm.errors,
                               Keys(dm.errors) \ Keys(last_result.matched))
        addU       == {k \in Keys(last_result.unmatched) : k \notin Keys(unmatched1)}
        unmatched2 == DictUpdate(unmatched1, Restrict(last_result.unmatched, addU))
        unmatched3 == Restrict(unmatched2, Keys(last_result.unmatched))
        addE       == {k \in Keys(last_result.errors) : k \notin Keys(unmatched3)}
        errors2    == DictUpdate(errors1, Restrict(last_result.errors, addE))
        errors3    == Restrict(errors2, Keys(last_result.errors))
    IN  [dm EXCEPT !.matched = matched1, !.unmatched = unmatched3,
                   !.errors = errors3]

\* DataManager._update on a ResultData last_result, loop by loop
_update_ResultData(dm, last_result) ==
    LET \* lines 56-65: matched items overwrite, and leave unmatched/errors
        matched1   == DictUpdate(dm.matched, last_result.matched)
        unmatched1 == Restrict(dm.unmatched,
                               Keys(dm.unmatched) \ Keys(last_result.matched))
        errors1    == Restrict(dm.errors,
                               Keys(dm.errors) \ Keys(last_result.matched))
        \* lines 68-71: add unmatched items not matched and not yet unmatched
        addU       == {k \in Keys(last_result.unmatched) :
                          k \notin Keys(matched1) /\ k \notin Keys(unmatched1)}
        unmatched2 == DictUpdate(unmatched1, Restrict(last_result.unmatched, addU))
        \* lines 74-79: drop unmatched keys the last result does not list
        unmatched3 == Restrict(unmatched2, Keys(last_result.unmatched))
        \* lines 82-85: add errors not matched and not unmatched
        addE       == {k \in Keys(last_result.errors) :
                          k \notin Keys(matched1) /\ k \notin Keys(unmatched3)}
        errors2    == DictUpdate(errors1, Restrict(last_result.errors, addE))
        \* lines 88-93: drop error keys the last result does not list
        errors3    == Restrict(errors2, Keys(last_result.errors))
    IN  [dm EXCEPT !.matched = matched1, !.unmatched = unmatched3,
                   !.errors = errors3]

\* DataManager._update: reads self.results[-1]; a value that is no ResultData
\* (the tuple HeuristicProcessor.process returns) has no attribute `matched`
\* and the attribute lookup on line 56 raises AttributeError
_update(dm) ==
    LET last_result == dm.results[Len(dm.results)]
    IN  IF last_result.kind = "ResultData"
        THEN [dm |-> _update_ResultData(dm, last_result), raised |-> FALSE]
        ELSE [dm |-> dm, raised |-> TRUE]

\* DataManager.add_result: append, then _update
add_result(dm, result_data) ==
    _update([dm EXCEPT !.results = Append(@, result_data)])

\* _reconcile_step in which a matched value, once set, is kept
_reconcile_step_FirstWriteWins(acc, result) ==
    LET m == DictUpdate(result.matched, acc.matched)
        u == DictUpdate(acc.unmatched,
                        Restrict(result.unmatched,
                                 Keys(result.unmatched) \ Keys(m)))
        e == DictUpdate(acc.errors,
                        Restrict(result.errors,
                                 Keys(result.errors) \ (Keys(m) \cup Keys(u))))
    IN  [matched |-> m, unmatched |-> u, errors |-> e]

\* one result of the history folded into the running reconciled partition
\* (the body of the loop of lines 109-124)
_reconcile_step(acc, result) ==
    LET m == DictUpdate(acc.matched, result.matched)
        u == DictUpdate(acc.unmatched,
                        Restrict(result.unmatched,
                                 Keys(result.unmatched) \ Keys(m)))
        e == DictUpdate(acc.errors,
                        Restrict(result.errors,
                                 Keys(result.errors) \ (Keys(m) \cup Keys(u))))
    IN  [matched |-> m, unmatched |-> u, errors |-> e]

RECURSIVE _reconcile_fold(_, _)
_reconcile_fold(results, n) ==
    IF n = 0
    THEN [matched |-> EmptyDict, unmatched |-> EmptyDict, errors |-> EmptyDict]
    ELSE _reconcile_step(_reconcile_fold(results, n - 1), results[n])

\* DataManager._reconcile: recompute the partition from the whole history
_reconcile(dm) ==
    LET acc == _reconcile_fold(dm.results, Len(dm.results))
        \* lines 127-133: exclusivity
        u   == Restrict(acc.unmatched, Keys(acc.unmatched) \ Keys(acc.matched))
        e   == Restrict(acc.errors,
                        Keys(acc.errors) \ (Keys(acc.matched) \cup Keys(u)))
    IN  [dm EXCEPT !.matched = acc.matched, !.unmatched = u, !.errors = e]

(***************************************************************************)
(* Python values.  A value is a record [t, v]: t names the Python type and *)
(* fixes the shape of v.  A str that is a dict key or a path is the        *)
(* sequence of its characters (keys are normalized and concatenated        *)
(* character by character); a str that is a data value is a TLA+ string    *)
(* and is parsed by the tables below.  A float is held in tenths.          *)
(***************************************************************************)
PyNone     == [t |-> "None"]
PyStr(s)   == [t |-> "str", v |-> s]
PyInt(i)   == [t |-> "int", v |-> i]
PyFloat(x) == [t |-> "float", v |-> x]
PyBool(b)  == [t |-> "bool", v |-> b]
PyList(l)  == [t |-> "list", v |-> l]
PyDict(d)  == [t |-> "dict", v |-> d]
\* a Python type object used as a value (str, int, ...)
PyType(n)  == [t |-> "type", v |-> n]

\* bool(x) as `if x:` and `x or y` take it
Truthy(x) ==
    CASE x.t = "None"  -> FALSE
      [] x.t = "str"   -> x.v # ""
      [] x.t = "int"   -> x.v # 0
      [] x.t = "float" -> x.v # 0
      [] x.t = "bool"  -> x.v
      [] x.t = "list"  -> x.v # <<>>
      [] x.t = "dict"  -> x.v # EmptyDict
      [] OTHER         -> TRUE

\* isinstance(x, ty) for the built-in types; bool is a subclass of int
IsInstance(x, ty) ==
    \/ x.t = ty
    \/ ty = "int" /\ x.t = "bool"
    \/ ty = "NoneType" /\ x.t = "None"

\* type(x), by name
TypeOf(x) == IF x.t = "None" THEN "NoneType" ELSE x.t

\* dict.get(key, default)
Get(d, key, default) == IF key \in DOMAIN d THEN d[key] ELSE default

(***************************************************************************)
(* SchemaHandler.normalize_text (schema_handler.py:465-493), on the        *)
(* characters of the text                                                  *)
(***************************************************************************)
LowerLetters == <<"a","b","c","d","e","f","g","h","i","j","k","l","m",
                  "n","o","p","q","r","s","t","u","v","w","x","y","z">>
UpperLetters == <<"A","B","C","D","E","F","G","H","I","J","K","L","M",
                  "N","O","P","Q","R","S","T","U","V","W","X","Y","Z">>
Digits       == {"0","1","2","3","4","5","6","7","8","9"}

Range(f) == {f[i] : i \in DOMAIN f}
IsLower(c) == c \in Range(LowerLetters)
IsUpper(c) == c \in Range(UpperLetters)
\* \w of the re module, for the characters above
IsWordChar(c) == IsLower(c) \/ IsUpper(c) \/ c \in Digits \/ c = "_"
\* str.lower() of one character
ToLower(c) ==
    IF IsUpper(c)
    THEN LowerLetters[CHOOSE i \in DOMAIN UpperLetters : UpperLetters[i] = c]
    ELSE c

\* line 483: re.sub(r"[_\-/]", " ", text)
ReplaceDelimiters(text) ==
    [i \in DOMAIN text |-> IF text[i] \in {"_", "-", "/"} THEN " " ELSE text[i]]

\* line 485: re.sub(r"(?<=[a-z])([A-Z])", r" \1", text)
RECURSIVE SplitCamelFrom(_, _)
SplitCamelFrom(text, i) ==
    IF i > Len(text) THEN <<>>
    ELSE (IF i > 1 /\ IsLower(text[i - 1]) /\ IsUpper(text[i])
          THEN <<" ", text[i]>> ELSE <<text[i]>>)
         \o SplitCamelFrom(text, i + 1)
SplitCamelCase(text) == SplitCamelFrom(text, 1)

\* the parentheticals that hold no parenthesis themselves are removed, as
\* r"\([^()]*\)" would
RECURSIVE RemoveInnermostFrom(_, _)
RemoveInnermostFrom(text, i) ==
    IF i > Len(text) THEN <<>>
    ELSE LET parens == {j \in (i + 1)..Len(text) : text[j] \in {"(", ")"}}
             next   == CHOOSE j \in parens : \A j2 \in parens : j <= j2
         IN  IF text[i] = "(" /\ parens # {} /\ text[next] = ")"
             THEN RemoveInnermostFrom(text, next + 1)
             ELSE <<text[i]>> \o RemoveInnermostFrom(text, i + 1)
RemoveParentheticals_Innermost(text) == RemoveInnermostFrom(text, 1)

\* line 487: re.sub(r"\([^)]*\)", "", text): from each "(" that has a ")" after
\* it, everything up to the first such ")" goes
RECURSIVE RemoveParensFrom(_, _)
RemoveParensFrom(text, i) ==
    IF i > Len(text) THEN <<>>
    ELSE LET closers == {j \in (i + 1)..Len(text) : text[j] = ")"}
         IN  IF text[i] = "(" /\ closers # {}
             THEN RemoveParensFrom(text,
                                   (CHOOSE j \in closers :
                                       \A j2 \in closers : j <= j2) + 1)
             ELSE <<text[i]>> \o RemoveParensFrom(text, i + 1)
RemoveParentheticals(text) == RemoveParensFrom(text, 1)

\* line 489: re.sub(r"\b(and/or|&|/)\b", " and ", text, flags=re.IGNORECASE).
\* No "/" is left after line 483, so only "&" can match, and \b on both sides
\* of it needs a word character right before and right after
RECURSIVE ConjunctionsFrom(_, _)
ConjunctionsFrom(text, i) ==
    IF i > Len(text) THEN <<>>
    ELSE (IF /\ text[i] = "&"
             /\ i > 1 /\ IsWordChar(text[i - 1])
             /\ i < Len(text) /\ IsWordChar(text[i + 1])
          THEN <<" ", "a", "n", "d", " ">> ELSE <<text[i]>>)
         \o ConjunctionsFrom(text, i + 1)
NormalizeConjunctions(text) == ConjunctionsFrom(text, 1)

\* line 491: " ".join(text.lower().split())
RECURSIVE JoinWordsFrom(_, _, _)
JoinWordsFrom(text, i, started) ==
    IF i > Len(text) THEN <<>>
    ELSE IF text[i] = " " THEN JoinWordsFrom(text, i + 1, started)
    ELSE (IF started /\ text[i - 1] = " " THEN <<" ">> ELSE <<>>)
         \o <<ToLower(text[i])>> \o JoinWordsFrom(text, i + 1, TRUE)
LowerAndCollapse(text) == JoinWordsFrom(text, 1, FALSE)

\* line 493: text.replace(" ", "_")
SpacesToUnderscores(text) ==
    [i \in DOMAIN text |-> IF text[i] = " " THEN "_" ELSE text[i]]

normalize_text(text) ==
    SpacesToUnderscores(
      LowerAndCollapse(
        NormalizeConjunctions(
          RemoveParentheticals(
            SplitCamelCase(
              ReplaceDelimiters(text))))))

(***************************************************************************)
(* SchemaHandler (schema_handler.py)                                       *)
(***************************************************************************)

\* the keys the handler and the processors look up, as characters
K_type       == <<"t","y","p","e">>
K_items      == <<"i","t","e","m","s">>
K_properties == <<"p","r","o","p","e","r","t","i","e","s">>
K_required   == <<"r","e","q","u","i","r","e","d">>
K_additionalProperties ==
    <<"a","d","d","i","t","i","o","n","a","l","P","r","o","p","e","r","t","i","e","s">>
K_prompt     == <<"p","r","o","m","p","t">>

\* the keys of dict d in the order its items() yields them: a Python dict
\* iterates in insertion order, which is part of the input; `order` lists
\* the keys in that order (keys it does not list are not iterated)
RECURSIVE IterKeysFrom(_, _, _)
IterKeysFrom(d, order, i) ==
    IF i > Len(order) THEN <<>>
    ELSE (IF order[i] \in DOMAIN d THEN <<order[i]>> ELSE <<>>)
         \o IterKeysFrom(d, order, i + 1)
IterKeys(d, order) == IterKeysFrom(d, order, 1)

\* python_type_mapping (lines 28-35) and its reverse (lines 46-48), by type name
PythonTypeMapping ==
    [str |-> "string", int |-> "integer", float |-> "number", list |-> "list",
     bool |-> "boolean", dict |-> "object"]
PythonTypeReverseMapping ==
    [string |-> "str", integer |-> "int", number |-> "float", list |-> "list",
     boolean |-> "bool", object |-> "dict"]

\* no exception
NoErrorSH == ""

\* SchemaHandler.__init__ without a schema (lines 41-48)
SchemaHandlerInit ==
    [original_schema   |-> PyNone,
     normalized_schema |-> PyNone,
     key_mapping       |-> EmptyDict,
     python_type_mapping |-> PythonTypeMapping,
     python_type_reverse_mapping |-> PythonTypeReverseMapping]

\* SchemaHandler._ensure_schema_submitted: `not self.normalized_schema` holds
\* for None and for an empty dict
SchemaSubmitted(sh) == Truthy(sh.normalized_schema)

\* the "type" names the draft-7 metaschema accepts
Draft7SimpleTypes ==
    {"array", "boolean", "integer", "null", "number", "object", "string"}

\* Draft7Validator.check_schema (line 82), for the keywords the schemas of
\* this model use: "type" is a simple type name or a list of them,
\* "properties" maps names to schemas, "items" and "additionalProperties" are
\* schemas, "required" is a list of strings; any other keyword may hold
\* anything.  A schema is a dict or a bool.
RECURSIVE Draft7Valid(_)
Draft7Valid(schema) ==
    \/ schema.t = "bool"
    \/ /\ schema.t = "dict"
       /\ K_type \in DOMAIN schema.v =>
             LET ty == schema.v[K_type]
             IN  \/ ty.t = "str" /\ ty.v \in Draft7SimpleTypes
                 \/ /\ ty.t = "list"
                    /\ ty.v # <<>>
                    /\ \A i \in DOMAIN ty.v :
                          ty.v[i].t = "str" /\ ty.v[i].v \in Draft7SimpleTypes
       /\ K_properties \in DOMAIN schema.v =>
             LET props == schema.v[K_properties]
             IN  /\ props.t = "dict"
                 /\ \A k \in DOMAIN props.v : Draft7Valid(props.v[k])
       /\ K_items \in DOMAIN schema.v =>
             LET items == schema.v[K_items]
             IN  \/ Draft7Valid(items)
                 \/ /\ items.t = "list"
                    /\ \A i \in DOMAIN items.v : Draft7Valid(items.v[i])
       /\ K_additionalProperties \in DOMAIN schema.v =>
             Draft7Valid(schema.v[K_additionalProperties])
       /\ K_required \in DOMAIN schema.v =>
             LET req == schema.v[K_required]
             IN  /\ req.t = "list"
                 /\ \A i \in DOMAIN req.v : req.v[i].t = "text"

\* SchemaHandler._normalize_field (lines 563-586): [raised, field]
_normalize_field(sh, field) ==
    CASE field.t = "str" ->
           [raised |-> FALSE,
            field |-> PyDict([k \in {K_type} |->
                               IF field.v # "array" THEN field ELSE PyStr("list")])]
      [] field.t = "dict" ->
           [raised |-> FALSE,
            field |-> IF Get(field.v, K_type, PyNone) = PyStr("array")
                      THEN PyDict([field.v EXCEPT ![K_type] = PyStr("list")])
                      ELSE field]
      [] field.t = "type" ->
           IF field.v \in DOMAIN sh.python_type_mapping
           THEN [raised |-> FALSE,
                 field |-> PyDict([k \in {K_type} |->
                                    PyStr(sh.python_type_mapping[field.v])])]
           ELSE [raised |-> TRUE, field |-> PyNone]
      [] OTHER -> [raised |-> TRUE, field |-> PyNone]

\* the body of the loop of _normalize_schema (lines 528-558) for one key:
\* acc is [raised, normalized, key_mapping]
_normalize_schema_key(sh, acc, key, value, order) ==
    LET normalized_key == normalize_text(key)
        km == DictUpdate(acc.key_mapping, [k \in {normalized_key} |-> key])
        put(v) == [raised |-> FALSE,
                   normalized |-> DictUpdate(acc.normalized,
                                             [k \in {normalized_key} |-> v]),
                   key_mapping |-> km]
        fail == [raised |-> TRUE, normalized |-> acc.normalized, key_mapping |-> km]
    IN  CASE key = K_properties ->
               IF value.t # "dict" THEN fail
               ELSE IF \E sk \in DOMAIN value.v : _normalize_field(sh, value.v[sk]).raised
               THEN fail
               ELSE put(PyDict(
                      [nk \in {normalize_text(sk) : sk \in DOMAIN value.v} |->
                         \* on a collision the sub-key iterated last wins
                         LET cands == {sk \in DOMAIN value.v : normalize_text(sk) = nk}
                             keys == IterKeys([sk \in cands |-> TRUE], order)
                         IN  _normalize_field(sh, value.v[keys[Len(keys)]]).field]))
          [] key = K_required ->
               IF value.t # "list" THEN fail
               ELSE put(PyList([i \in DOMAIN value.v |->
                                  [t |-> "text", v |-> normalize_text(value.v[i].v)]]))
          [] key \in {K_additionalProperties, K_type} -> put(value)
          [] OTHER ->
               LET nf == _normalize_field(sh, value)
               IN  IF nf.raised THEN fail ELSE put(nf.field)

RECURSIVE _normalize_schema_loop(_, _, _, _, _)
_normalize_schema_loop(sh, schema, keys, n, order) ==
    IF n = 0
    THEN [raised |-> FALSE, normalized |-> EmptyDict, key_mapping |-> sh.key_mapping]
    ELSE LET acc == _normalize_schema_loop(sh, schema, keys, n - 1, order)
         IN  IF acc.raised THEN acc
             ELSE _normalize_schema_key(sh, acc, keys[n], schema.v[keys[n]], order)

\* SchemaHandler._normalize_schema (lines 522-561) over the keys in `order`
_normalize_schema(sh, schema, order) ==
    LET keys == IterKeys(schema.v, order)
    IN  _normalize_schema_loop(sh, schema, keys, Len(keys), order)

\* json.loads of the JSON texts given as schemas (line 68): the decoded
\* value, or Undecodable
Undecodable == [t |-> "JSONDecodeError"]

\* the fields of a schema after _normalize_field has rewritten "array" in
\* place (line 575): the caller's dict is the one that is stored
OriginalAfterNormalize(sh, schema) ==
    PyDict([k \in DOMAIN schema.v |->
              IF /\ k \notin {K_properties, K_required, K_additionalProperties, K_type}
                 /\ schema.v[k].t = "dict"
              THEN _normalize_field(sh, schema.v[k]).field
              ELSE schema.v[k]])

\* SchemaHandler.submit_schema (lines 53-94): [sh, raised].  `schema` is a
\* Python value; a str schema is [t |-> "str", v |-> text, json |-> what
\* json.loads makes of the text]
submit_schema(sh, schema, order) ==
    LET decoded == IF schema.t = "str" THEN schema.json ELSE schema
    IN  IF decoded = Undecodable THEN [sh |-> sh, raised |-> TRUE]
        ELSE IF decoded.t # "dict" THEN [sh |-> sh, raised |-> TRUE]
        ELSE IF ~Draft7Valid(decoded) THEN [sh |-> sh, raised |-> TRUE]
        ELSE LET n == _normalize_schema(sh, decoded, order)
             IN  IF n.raised
                 THEN [sh |-> [sh EXCEPT !.original_schema = decoded,
                                         !.key_mapping = n.key_mapping],
                       raised |-> TRUE]
                 ELSE [sh |-> [sh EXCEPT
                                 !.original_schema = OriginalAfterNormalize(sh, decoded),
                                 !.normalized_schema = PyDict(n.normalized),
                                 !.key_mapping = n.key_mapping],
                       raised |-> FALSE]

\* SchemaHandler.register_type (lines 347-375): [sh, raised].
\* python_type_mapping is an attribute of the class (line 28) that no
\* instance replaces, so line 371 writes into the dict all instances read;
\* python_type_reverse_mapping is the instance's own (line 46)
register_type(sh, python_type, json_type) ==
    IF python_type.t # "type" \/ json_type.t # "str"
    THEN [sh |-> sh, raised |-> "ValueError"]
    ELSE [sh |-> [sh EXCEPT
                    !.python_type_mapping =
                        DictUpdate(@, [k \in {python_type.v} |-> json_type.v]),
                    !.python_type_reverse_mapping =
                        DictUpdate(@, [k \in {json_type.v} |-> python_type.v])],
          raised |-> NoErrorSH]

\* the python_type_mapping another instance reads when this handler holds
\* sh: the dict of the class
OtherInstanceTypeMapping(sh) == sh.python_type_mapping

\* SchemaHandler.add_field (lines 377-407): [sh, raised].  The key mapping is
\* written (line 404) before the field is stored under
\* normalized_schema["properties"] (line 406), which a schema without that
\* key answers with KeyError
add_field(sh, field_name, field_schema) ==
    IF ~SchemaSubmitted(sh) THEN [sh |-> sh, raised |-> "SchemaNotSubmittedError"]
    ELSE IF field_name.t # "text" \/ field_schema.t # "dict"
    THEN [sh |-> sh, raised |-> "ValueError"]
    ELSE LET normalized_key == normalize_text(field_name.v)
             km == DictUpdate(sh.key_mapping, [k \in {normalized_key} |-> field_name.v])
             normalized_field == _normalize_field(sh, field_schema).field
             ns == sh.normalized_schema.v
         IN  IF K_properties \notin DOMAIN ns
             THEN [sh |-> [sh EXCEPT !.key_mapping = km], raised |-> "KeyError"]
             ELSE IF ns[K_properties].t # "dict"
             THEN [sh |-> [sh EXCEPT !.key_mapping = km], raised |-> "TypeError"]
             ELSE [sh |-> [sh EXCEPT
                             !.key_mapping = km,
                             !.normalized_schema =
                                 PyDict([ns EXCEPT ![K_properties] =
                                    PyDict(DictUpdate(@.v,
                                       [k \in {normalized_key} |-> normalized_field]))])],
                   raised |-> NoErrorSH]

\* SchemaHandler.get_original_key, once the schema is known to be submitted
get_original_key(sh, normalized_key) ==
    IF normalized_key \in DOMAIN sh.key_mapping
    THEN sh.key_mapping[normalized_key]
    ELSE normalized_key

\* finalize_output without the mapping of the keys (a mutant)
finalize_output_CanonicalKeys(dm, sh, reconcile) ==
    LET dm1 == IF reconcile THEN _reconcile(dm) ELSE dm
    IN  [dm |-> dm1, output |-> PyDict(dm1.matched), raised |-> FALSE]

\* DataManager.finalize_output: [dm, output, raised]; get_original_key raises
\* SchemaNotSubmittedError for the first matched key when no schema is there
finalize_output(dm, sh, reconcile) ==
    LET dm1 == IF reconcile THEN _reconcile(dm) ELSE dm
        out == {<<get_original_key(sh, k), dm1.matched[k]>> : k \in Keys(dm1.matched)}
    IN  IF Keys(dm1.matched) # {} /\ ~SchemaSubmitted(sh)
        THEN [dm |-> dm1, output |-> PyNone, raised |-> TRUE]
        ELSE [dm |-> dm1,
              output |-> PyDict([ok \in {p[1] : p \in out} |->
                                   (CHOOSE p \in out : p[1] = ok)[2]]),
              raised |-> FALSE]

(***************************************************************************)
(* The library functions the HeuristicProcessor applies to str values, as  *)
(* tables over the strings the data of this model holds (DataStrings).     *)
(***************************************************************************)
DataStrings == {"231", "23.5", "five", "abc", "a, b", "True"}

Parsed(v) == [ok |-> TRUE, v |-> v]
\* the call raised ValueError
ParseFailed == [ok |-> FALSE]

\* int(s)
StrToInt(s) == IF s = "231" THEN Parsed(PyInt(231)) ELSE ParseFailed
\* float(s), reached for the strings that hold a "."
StrToFloat(s) == IF s = "23.5" THEN Parsed(PyFloat(235)) ELSE ParseFailed
\* "." in s
HasDot(s) == s = "23.5"
\* w2n.word_to_num(s)
word_to_num(s) == IF s = "five" THEN Parsed(PyInt(5)) ELSE ParseFailed
\* s.lower()
StrLower(s) == IF s = "True" THEN "true" ELSE s
\* [item.strip() for item in s.split(",")]
SplitStrip(s) == IF s = "a, b" THEN <<PyStr("a"), PyStr("b")>> ELSE <<PyStr(s)>>
\* list(s): the characters of s
StrChars(s) ==
    CASE s = "231"  -> <<PyStr("2"), PyStr("3"), PyStr("1")>>
      [] s = "23.5" -> <<PyStr("2"), PyStr("3"), PyStr("."), PyStr("5")>>
      [] s = "five" -> <<PyStr("f"), PyStr("i"), PyStr("v"), PyStr("e")>>
      [] s = "abc"  -> <<PyStr("a"), PyStr("b"), PyStr("c")>>
      [] s = "a, b" -> <<PyStr("a"), PyStr(","), PyStr(" "), PyStr("b")>>
      [] s = "True" -> <<PyStr("T"), PyStr("r"), PyStr("u"), PyStr("e")>>
      [] s = "a"    -> <<PyStr("a")>>
      [] s = "b"    -> <<PyStr("b")>>

\* round(x) of a non-negative float held in tenths: halves go to the even side
Round(x) ==
    LET q == x \div 10
        r == x % 10
    IN  IF r < 5 THEN q
        ELSE IF r > 5 THEN q + 1
        ELSE IF q % 2 = 0 THEN q ELSE q + 1

\* str(item); the repr of a list or a dict is kept as the value it prints
StrOf(item) ==
    CASE item.t = "str"   -> item
      [] item.t = "int"   -> PyStr(ToString(item.v))
      [] item.t = "float" ->
           PyStr(ToString(item.v \div 10) \o "." \o ToString(item.v % 10))
      [] item.t = "bool"  -> PyStr(IF item.v THEN "True" ELSE "False")
      [] item.t = "None"  -> PyStr("None")
      [] OTHER            -> [t |-> "str", v |-> "repr", of |-> item]

\* float(item) and int(item) of a value that is not a str: TypeError for
\* None, a list and a dict
IsNumber(item) == item.t \in {"int", "float", "bool"}
ToFloat(item) ==
    CASE item.t = "int"   -> PyFloat(10 * item.v)
      [] item.t = "bool"  -> PyFloat(IF item.v THEN 10 ELSE 0)
      [] item.t = "float" -> item
ToInt(item) ==
    CASE item.t = "int"   -> item
      [] item.t = "bool"  -> PyInt(IF item.v THEN 1 ELSE 0)
      [] item.t = "float" -> PyInt(Round(item.v))

(***************************************************************************)
(* HeuristicProcessor (heuristic_processor.py).  A call gives a record     *)
(* whose `raised` names the exception that left it, NoError when it        *)
(* returned.  The dicts appended to unmatched_keys and errors hold one     *)
(* entry each and are kept as <<path, value>>.                             *)
(***************************************************************************)
NoError == ""
\* except (ValueError, TypeError)
Catchable(e) == e \in {"ValueError", "TypeError"}
\* None where a type is looked up
NoType == "none"

\* SchemaHandler.get_type_from_field (schema_handler.py:258-304)
get_type_from_field(sh, field) ==
    LET lookup(json_type) ==
            IF json_type.t = "str" /\ json_type.v \in DOMAIN sh.python_type_reverse_mapping
            THEN [raised |-> NoError, type |-> sh.python_type_reverse_mapping[json_type.v]]
            ELSE [raised |-> NoError, type |-> NoType]
    IN  IF field.t = "dict" /\ K_type \in DOMAIN field.v
        THEN LET json_type == field.v[K_type]
             IN  CASE json_type.t = "dict" -> [raised |-> "ValueError", type |-> NoType]
                   \* a list is unhashable: dict.get raises TypeError
                   [] json_type.t = "list" -> [raised |-> "TypeError", type |-> NoType]
                   [] OTHER -> lookup(json_type)
        ELSE IF field.t = "str" THEN lookup(field)
        ELSE [raised |-> NoError, type |-> NoType]

\* expected_type(item) at line 442, for list, dict and NoneType: the value
\* made, or the item itself when the call raises TypeError or ValueError
\* (caught at line 443).  The lists of the data hold no two-element items.
Construct(expected_type, item) ==
    CASE expected_type = "list" /\ item.t = "str" -> PyList(StrChars(item.v))
      [] expected_type = "dict" /\ item.t = "list" /\ item.v = <<>> -> PyDict(EmptyDict)
      [] OTHER -> item

\* HeuristicProcessor._coerce_item_type (lines 338-449)
_coerce_item_type(item, expected_type) ==
    CASE expected_type = NoType -> item
      [] expected_type = "bool" ->
           IF item.t = "str" /\ StrLower(item.v) \in {"true", "false"}
           THEN PyBool(StrLower(item.v) = "true")
           ELSE IF item.t = "bool" THEN item
           ELSE IF item.t = "int" THEN PyBool(item.v # 0)
           ELSE item
      [] expected_type = "str" -> StrOf(item)
      [] expected_type \in {"float", "int"} ->
           IF item.t = "str"
           THEN LET std == IF HasDot(item.v) THEN StrToFloat(item.v) ELSE StrToInt(item.v)
                    w   == word_to_num(item.v)
                IN  IF std.ok THEN std.v
                    ELSE IF w.ok
                    THEN (IF expected_type = "float" THEN ToFloat(w.v) ELSE ToInt(w.v))
                    ELSE item
           ELSE IF ~IsNumber(item) THEN item
           ELSE IF expected_type = "float" THEN ToFloat(item)
           ELSE ToInt(item)
      [] OTHER ->
           IF IsInstance(item, expected_type) THEN item
           ELSE Construct(expected_type, item)

\* what the processing of a dict has gathered so far
HPAcc(raised, processed, unmatched_keys, errors) ==
    [raised |-> raised, processed |-> processed,
     unmatched_keys |-> unmatched_keys, errors |-> errors]
HPRaise(acc, e) == [acc EXCEPT !.raised = e]

\* the elements of seq without the repetitions of an earlier element
RECURSIVE Dedup(_, _)
Dedup(seq, n) ==
    IF n = 0 THEN <<>>
    ELSE Dedup(seq, n - 1)
         \o (IF \E j \in 1..(n - 1) : seq[j] = seq[n] THEN <<>> ELSE <<seq[n]>>)

\* HeuristicProcessor._normalize_data (lines 109-113): the normalized keys
\* in the order the new dict holds them, and the dict, in which the key
\* iterated last wins a collision
_normalize_data(data, order) ==
    LET keys  == IterKeys(data, order)
        nkeys == [i \in DOMAIN keys |-> normalize_text(keys[i])]
        last(nk) == CHOOSE i \in DOMAIN keys :
                       /\ nkeys[i] = nk
                       /\ \A j \in DOMAIN keys : nkeys[j] = nk => j <= i
    IN  [keys |-> Dedup(nkeys, Len(nkeys)),
         dict |-> [nk \in Range(nkeys) |-> data[keys[last(nk)]]]]

\* HeuristicProcessor._build_path (line 116)
_build_path(path, key) == IF path # <<>> THEN path \o <<".">> \o key ELSE key

\* f"{current_path}[{index}]" (line 242), for an index of one digit
DigitChars == <<"0","1","2","3","4","5","6","7","8","9">>
ItemPath(current_path, index) ==
    current_path \o <<"[", DigitChars[index + 1], "]">>

\* HeuristicProcessor._get_field_definition (lines 118-121): .get of a value
\* that is not a dict raises AttributeError
_get_field_definition(schema, normalized_key) ==
    IF schema.t # "dict" THEN [raised |-> "AttributeError", field |-> PyNone]
    ELSE LET props == Get(schema.v, K_properties, PyDict(EmptyDict))
         IN  IF props.t # "dict" THEN [raised |-> "AttributeError", field |-> PyNone]
             ELSE [raised |-> NoError,
                   field |-> Get(props.v, normalized_key,
                                 Get(schema.v, normalized_key, PyNone))]

\* HeuristicProcessor._process_primitive_field (lines 146-182);
\* _coerce_item_type catches the ValueError and TypeError of its own calls,
\* so the handler of line 178 is not entered
_process_primitive_field(acc, value, normalized_key, expected_type, path) ==
    LET coerced_value == _coerce_item_type(value, expected_type)
    IN  IF IsInstance(coerced_value, expected_type)
        THEN [acc EXCEPT !.processed = DictUpdate(@, normalized_key :> coerced_value)]
        ELSE [acc EXCEPT !.errors = Append(@, <<path, value>>)]

RECURSIVE _process_nested(_, _, _, _, _)

\* the loop of _process_list_items (lines 241-303) over the first n items:
\* [raised, matched_items, errors]; unmatched_items stays the empty dict
RECURSIVE _process_list_items_loop(_, _, _, _, _, _, _)
_process_list_items_loop(sh, value, items_definition, expected_type,
                         current_path, n, order) ==
    IF n = 0 THEN [raised |-> NoError, matched_items |-> <<>>, errors |-> <<>>]
    ELSE
    LET acc == _process_list_items_loop(sh, value, items_definition, expected_type,
                                        current_path, n - 1, order)
        item == value[n]
        item_path == ItemPath(current_path, n - 1)
        failed(a) == [a EXCEPT !.errors = Append(@, <<item_path, item>>)]
    IN  IF acc.raised # NoError THEN acc
        ELSE IF item.t = "dict"
        THEN LET nested == _process_nested(sh, item.v, items_definition, item_path, order)
                 acc1 == IF nested.processed # EmptyDict
                         THEN [acc EXCEPT !.matched_items =
                                              Append(@, PyDict(nested.processed))]
                         ELSE acc
             IN  IF nested.raised # NoError
                 THEN (IF Catchable(nested.raised) THEN failed(acc)
                       ELSE [acc EXCEPT !.raised = nested.raised])
                 \* line 267: dict.update of a list of one-entry dicts raises
                 \* ValueError unless the list is empty
                 ELSE IF nested.unmatched_keys # <<>> THEN failed(acc1)
                 ELSE [acc1 EXCEPT !.errors = @ \o nested.errors]
        ELSE LET coerced_item == _coerce_item_type(item, expected_type)
             IN  IF coerced_item # PyNone /\ IsInstance(coerced_item, expected_type)
                 THEN [acc EXCEPT !.matched_items = Append(@, coerced_item)]
                 ELSE failed(acc)

\* HeuristicProcessor._process_list_items (lines 215-319), value a list
_process_list_items(sh, value, field_definition, current_path, order) ==
    IF field_definition.t # "dict"
    THEN [raised |-> "AttributeError", matched_items |-> <<>>, errors |-> <<>>]
    ELSE
    LET items_definition == Get(field_definition.v, K_items, PyDict(EmptyDict))
        gt == get_type_from_field(sh, items_definition)
        expected_type == IF gt.type = NoType /\ value # <<>>
                         THEN TypeOf(value[1]) ELSE gt.type
    IN  IF gt.raised # NoError
        THEN [raised |-> gt.raised, matched_items |-> <<>>, errors |-> <<>>]
        ELSE _process_list_items_loop(sh, value, items_definition, expected_type,
                                      current_path, Len(value), order)

\* HeuristicProcessor._normalize_list_value (lines 197-200): [raised, value]
_normalize_list_value(value, field_definition) ==
    IF value.t # "str" THEN [raised |-> NoError, value |-> value]
    ELSE IF field_definition.t # "dict"
    THEN [raised |-> "AttributeError", value |-> value]
    ELSE IF Get(field_definition.v, K_type, PyNone) = PyStr("list")
    THEN [raised |-> NoError, value |-> PyList(SplitStrip(value.v))]
    ELSE [raised |-> NoError, value |-> value]

\* HeuristicProcessor._process_list (lines 202-213): `arity` is the length
\* of the tuple returned, 2 at line 207 and 3 at line 213
_process_list(sh, value, field_definition, current_path, order) ==
    LET nv == _normalize_list_value(value, field_definition)
        none == [raised |-> NoError, arity |-> 2, matched_items |-> <<>>,
                 unmatched_items |-> <<<<current_path, nv.value>>>>, errors |-> <<>>]
    IN  IF nv.raised # NoError THEN [none EXCEPT !.raised = nv.raised]
        ELSE IF nv.value.t # "list" THEN none
        ELSE LET r == _process_list_items(sh, nv.value.v, field_definition,
                                          current_path, order)
             IN  [raised |-> r.raised, arity |-> 3, matched_items |-> r.matched_items,
                  unmatched_items |-> <<>>, errors |-> r.errors]

\* _process_list_field that stores the list of a field whether or not an
\* element matched (a mutant)
_process_list_field_AlwaysEmit(sh, acc, key, value, field_definition, path, order) ==
    LET r == _process_list(sh, value, field_definition, path, order)
    IN  IF r.raised # NoError THEN HPRaise(acc, r.raised)
        ELSE IF r.arity # 3 THEN HPRaise(acc, "ValueError")
        ELSE [acc EXCEPT
                !.processed = DictUpdate(@, normalize_text(key) :> PyList(r.matched_items)),
                !.unmatched_keys = @ \o r.unmatched_items,
                !.errors = @ \o r.errors]

\* HeuristicProcessor._process_list_field (lines 123-132): the assignment of
\* line 126 unpacks three values and raises ValueError for a tuple of two
_process_list_field(sh, acc, key, value, field_definition, path, order) ==
    LET r == _process_list(sh, value, field_definition, path, order)
    IN  IF r.raised # NoError THEN HPRaise(acc, r.raised)
        ELSE IF r.arity # 3 THEN HPRaise(acc, "ValueError")
        ELSE [acc EXCEPT
                !.processed = IF r.matched_items # <<>>
                              THEN DictUpdate(@, normalize_text(key) :> PyList(r.matched_items))
                              ELSE @,
                !.unmatched_keys = @ \o r.unmatched_items,
                !.errors = @ \o r.errors]

\* HeuristicProcessor._process_dict_field (lines 134-144), value a dict
_process_dict_field(sh, acc, key, value, field_definition, path, order) ==
    IF field_definition.t # "dict" THEN HPRaise(acc, "AttributeError")
    ELSE
    LET nested_schema == Get(field_definition.v, K_properties, field_definition)
        nested == _process_nested(sh, value.v, nested_schema, path, order)
    IN  IF nested.raised # NoError THEN HPRaise(acc, nested.raised)
        ELSE [acc EXCEPT
                !.processed = IF nested.processed # EmptyDict
                              THEN DictUpdate(@, normalize_text(key) :> PyDict(nested.processed))
                              ELSE @,
                !.unmatched_keys = @ \o nested.unmatched_keys,
                !.errors = @ \o nested.errors]

\* HeuristicProcessor._process_unexpected_field (lines 184-195)
_process_unexpected_field(sh, acc, value, schema, path, order) ==
    IF value.t = "dict"
    THEN LET nested == _process_nested(sh, value.v, schema, path, order)
         IN  IF nested.raised # NoError THEN HPRaise(acc, nested.raised)
             ELSE [acc EXCEPT
                     !.processed = DictUpdate(@, nested.processed),
                     !.unmatched_keys = @ \o nested.unmatched_keys,
                     !.errors = @ \o nested.errors]
    ELSE [acc EXCEPT !.unmatched_keys = Append(@, <<path, value>>)]

\* the body of the loop of _process_nested (lines 65-105) for one key
_process_nested_key(sh, acc, key, value, schema, path, order) ==
    LET current_path == _build_path(path, key)
        normalized_key == normalize_text(key)
        fd == _get_field_definition(schema, normalized_key)
        field_definition == fd.field
        gt == get_type_from_field(sh, field_definition)
        expected_type == gt.type
    IN  IF fd.raised # NoError THEN HPRaise(acc, fd.raised)
        ELSE IF gt.raised # NoError THEN HPRaise(acc, gt.raised)
        ELSE IF expected_type = "list"
        THEN _process_list_field(sh, acc, key, value, field_definition,
                                 current_path, order)
        ELSE IF expected_type = "dict" /\ value.t = "dict"
        THEN _process_dict_field(sh, acc, key, value, field_definition,
                                 current_path, order)
        ELSE IF expected_type # NoType
        THEN _process_primitive_field(acc, value, normalized_key, expected_type,
                                      current_path)
        ELSE _process_unexpected_field(sh, acc, value, schema, current_path, order)

RECURSIVE _process_nested_loop(_, _, _, _, _, _)
_process_nested_loop(sh, normalized_data, schema, path, n, order) ==
    IF n = 0 THEN HPAcc(NoError, EmptyDict, <<>>, <<>>)
    ELSE LET acc == _process_nested_loop(sh, normalized_data, schema, path, n - 1, order)
             key == normalized_data.keys[n]
         IN  IF acc.raised # NoError THEN acc
             ELSE _process_nested_key(sh, acc, key, normalized_data.dict[key],
                                      schema, path, order)

\* HeuristicProcessor._process_nested (lines 48-107): data is the dict's
\* mapping, schema and the values are Python values
_process_nested(sh, data, schema, path, order) ==
    LET normalized_data == _normalize_data(data, order)
    IN  _process_nested_loop(sh, normalized_data, schema, path,
                             Len(normalized_data.keys), order)

\* HeuristicProcessor.process (lines 27-46): what it returns is a tuple, not
\* a ResultData
HeuristicProcessor_process(sh, data, order) ==
    IF ~Truthy(sh.normalized_schema)
    THEN [kind |-> "tuple", raised |-> "ValueError", processed |-> EmptyDict,
          unmatched_keys |-> <<>>, errors |-> <<>>]
    ELSE LET r == _process_nested(sh, data, sh.normalized_schema, <<>>, order)
         IN  [kind |-> "tuple", raised |-> r.raised, processed |-> r.processed,
              unmatched_keys |-> r.unmatched_keys, errors |-> r.errors]

(***************************************************************************)
(* MachineLearningProcessor (ml_processor.py).  The scores come from       *)
(* rapidfuzz and from a BERT model; an oracle gives them: oracle.ratio is  *)
(* the fuzzy ratio (0..100) and oracle.similarity the cosine similarity in *)
(* hundredths, both on <<key, schema_key>>, and oracle.fails holds the     *)
(* keys for which the embedding raises.                                    *)
(***************************************************************************)
misspelling_threshold == 75
\* 0.75, in hundredths
synonym_threshold == 75

\* the loop over schema_keys of _predict_misspellings (lines 159-169) and of
\* _predict_synonyms (lines 204-210): [match, score] after the first n keys
RECURSIVE BestMatch(_, _, _, _)
BestMatch(score, key, schema_keys, n) ==
    IF n = 0 THEN [match |-> PyNone, score |-> 0]
    ELSE LET best == BestMatch(score, key, schema_keys, n - 1)
             sc   == score[<<key, schema_keys[n]>>]
         IN  IF sc > best.score
             THEN [match |-> [t |-> "text", v |-> schema_keys[n]], score |-> sc]
             ELSE best

\* MachineLearningProcessor._predict_misspellings (lines 135-182), for the
\* one-entry dict {key: value}
_predict_misspellings(key, value, schema_keys, oracle) ==
    LET best == BestMatch(oracle.ratio, key, schema_keys, Len(schema_keys))
    IN  IF best.match # PyNone /\ best.match.v # <<>> /\ best.score > misspelling_threshold
        THEN best.match.v :> value
        ELSE EmptyDict

\* MachineLearningProcessor._predict_synonyms (lines 184-226)
_predict_synonyms(key, value, schema_keys, oracle) ==
    LET best == BestMatch(oracle.similarity, key, schema_keys, Len(schema_keys))
    IN  IF best.match # PyNone /\ best.match.v # <<>> /\ best.score > synonym_threshold
        THEN best.match.v :> value
        ELSE EmptyDict

\* MachineLearningProcessor._process_item (lines 74-133): [raised, item,
\* embedded]; embedded tells whether _predict_synonyms, and with it the
\* embedding backend, was called
_process_item(key, value, schema_keys, oracle) ==
    LET fuzzy_matched == _predict_misspellings(key, value, schema_keys, oracle)
        synonym_matched ==
            Restrict(_predict_synonyms(key, value, schema_keys, oracle), Range(schema_keys))
    IN  IF fuzzy_matched # EmptyDict
        THEN [raised |-> FALSE, item |-> fuzzy_matched, embedded |-> FALSE]
        ELSE IF key \in oracle.fails /\ schema_keys # <<>>
        THEN [raised |-> TRUE, item |-> EmptyDict, embedded |-> TRUE]
        ELSE [raised |-> FALSE, item |-> synonym_matched, embedded |-> TRUE]

\* the loop of process (lines 56-66) over the first n keys:
\* [processed_data, errors, embedded], embedded being the keys for which
\* the embedding backend was called
RECURSIVE MLProcessLoop(_, _, _, _, _)
MLProcessLoop(unmatched_data, keys, schema_keys, oracle, n) ==
    IF n = 0 THEN [processed_data |-> EmptyDict, errors |-> <<>>, embedded |-> {}]
    ELSE LET acc == MLProcessLoop(unmatched_data, keys, schema_keys, oracle, n - 1)
             key == keys[n]
             r   == _process_item(key, unmatched_data[key], schema_keys, oracle)
             emb == IF r.embedded THEN acc.embedded \cup {key} ELSE acc.embedded
         IN  IF r.raised
             THEN [acc EXCEPT !.errors = Append(@, key :> unmatched_data[key]),
                              !.embedded = emb]
             ELSE [acc EXCEPT !.processed_data = DictUpdate(@, r.item),
                              !.embedded = emb]

\* MachineLearningProcessor.process (lines 35-72): [raised, error, result,
\* embedded]; without a schema it raises ValueError (lines 48-51); the
\* list unmatched_keys is returned as it was created, empty
MachineLearningProcessor_process(sh, unmatched_data, oracle, order) ==
    IF ~Truthy(sh.normalized_schema)
    THEN [raised |-> TRUE, error |-> "ValueError", result |-> PyNone, embedded |-> {}]
    ELSE LET schema_keys == IterKeys(sh.normalized_schema.v, order)
             keys == IterKeys(unmatched_data, order)
             r == MLProcessLoop(unmatched_data, keys, schema_keys, oracle, Len(keys))
             unmatched_keys == <<>>
         IN  [raised |-> FALSE, error |-> NoError,
              result |-> ResultData(r.processed_data, ListToDict(unmatched_keys),
                                    ListToDict(r.errors)),
              embedded |-> r.embedded]

(***************************************************************************)
(* APIInterface and AsyncAPIInterface (api_interface.py).  What one call   *)
(* of the chat completion API gives is an outcome: content (the JSON value *)
(* json.loads makes of it, or Undecodable), a retryable error (429, 500,   *)
(* 503, 504, RateLimitError), a ValueError the call itself raises, or any  *)
(* other error.                                                            *)
(***************************************************************************)
Content(json)  == [kind |-> "content", json |-> json]
RetryableError == [kind |-> "retryable"]
FatalError     == [kind |-> "fatal"]
\* client.chat.completions.create raises a ValueError (line 196)
CallValueError == [kind |-> "valueerror"]

\* the number of attempts APIInterface and AsyncAPIInterface are built with
retries == 3

\* the outcome of the i-th call of a send_query: the last one listed repeats
OutcomeAt(attempts, i) ==
    attempts[IF i <= Len(attempts) THEN i ELSE Len(attempts)]

\* request_func (lines 196-201): [raised, retryable]; _validate_json raises
\* ValueError, which _retry_request retries (line 111)
request_func(outcome) ==
    CASE outcome.kind = "content" ->
           [raised |-> outcome.json = Undecodable, retryable |-> TRUE]
      [] outcome.kind = "retryable" -> [raised |-> TRUE, retryable |-> TRUE]
      \* isinstance(e, ValueError) at line 111 holds for every ValueError
      [] outcome.kind = "valueerror" -> [raised |-> TRUE, retryable |-> TRUE]
      [] OTHER -> [raised |-> TRUE, retryable |-> FALSE]

\* the loop of _retry_request that goes on to another call when no
\* retries are left
RECURSIVE _retry_request_OneMore(_, _, _)
_retry_request_OneMore(attempts, i, n) ==
    IF n < 0
    THEN [outcome |-> "raised", calls |-> i - 1, content |-> PyNone,
          error |-> "RuntimeError"]
    ELSE LET o == OutcomeAt(attempts, i)
             r == request_func(o)
         IN  IF ~r.raised
             THEN [outcome |-> "returned", calls |-> i, content |-> o, error |-> ""]
             ELSE IF ~r.retryable
             THEN [outcome |-> "raised", calls |-> i, content |-> PyNone,
                   error |-> "APIError"]
             ELSE _retry_request_OneMore(attempts, i + 1, n - 1)

\* BaseAPIInterface._retry_request (lines 85-130) from the i-th call on with
\* n retries left: [outcome, calls, content, error]; the loop left with
\* n <= 0 returns None.  error names what was raised: the error of the API
\* that is not retryable (line 118), or RuntimeError (line 127)
RECURSIVE _retry_request(_, _, _)
_retry_request(attempts, i, n) ==
    IF n <= 0
    THEN [outcome |-> "returned", calls |-> i - 1, content |-> PyNone, error |-> ""]
    \* content is the outcome that holds it
    ELSE LET o == OutcomeAt(attempts, i)
             r == request_func(o)
         IN  IF ~r.raised
             THEN [outcome |-> "returned", calls |-> i, content |-> o, error |-> ""]
             ELSE IF ~r.retryable
             THEN [outcome |-> "raised", calls |-> i, content |-> PyNone,
                   error |-> "APIError"]
             ELSE IF n - 1 = 0
             THEN [outcome |-> "raised", calls |-> i, content |-> PyNone,
                   error |-> "RuntimeError"]
             ELSE _retry_request(attempts, i + 1, n - 1)

\* APIInterface.send_query (lines 178-203)
send_query(attempts) == _retry_request(attempts, 1, retries)

\* send_query of an APIInterface or AsyncAPIInterface built with
\* retries=n (lines 168, 203 and 339, 366)
send_query_configured(attempts, n) == _retry_request(attempts, 1, n)

(***************************************************************************)
(* OpenAI_JSON (openai_json.py)                                            *)
(***************************************************************************)
\* SchemaHandler.generate_example_json (schema_handler.py:109-167) raises
\* when no schema is submitted (line 116) and, with AttributeError, when an
\* entry of the normalized schema is not a dict (line 120)
generate_example_json_raises(sh) ==
    \/ ~SchemaSubmitted(sh)
    \/ \E k \in DOMAIN sh.normalized_schema.v : sh.normalized_schema.v[k].t # "dict"

\* OpenAI_JSON._init_apis (lines 105-122): [client, raised]; the interfaces
\* carry the example made of the schema of the moment
_init_apis(cl, sh) ==
    IF generate_example_json_raises(sh) THEN [client |-> cl, raised |-> TRUE]
    ELSE [client |-> [cl EXCEPT !.api_ready = TRUE,
                                !.example_schema = sh.normalized_schema],
          raised |-> FALSE]

\* OpenAI_JSON.__init__ (lines 32-103) with schema None: no interface yet
ClientInit ==
    [api_ready |-> FALSE, example_schema |-> PyNone, api_calls |-> 0,
     unmatched_data |-> EmptyDict, errors |-> EmptyDict]

\* OpenAI_JSON._prepare_query (lines 187-204): [client, sh, raised]; every
\* exception leaves as ValueError.  extract_prompts raises when no schema is
\* submitted, and self.example_json_string is set by _init_apis only
_prepare_query(cl, sh, schema, order) ==
    LET s   == IF Truthy(schema) THEN submit_schema(sh, schema, order)
               ELSE [sh |-> sh, raised |-> FALSE]
        ini == IF Truthy(schema) /\ ~s.raised THEN _init_apis(cl, s.sh)
               ELSE [client |-> cl, raised |-> FALSE]
    IN  [client |-> ini.client,
         sh     |-> s.sh,
         raised |-> \/ s.raised
                    \/ ini.raised
                    \/ ~SchemaSubmitted(s.sh)
                    \/ ~ini.client.api_ready]

\* ResultData(unmatched=parsed_response) (line 212): [raised, unmatched];
\* a falsy value becomes {}, a list of dicts is merged by __setattr__, a list
\* with another item raises AttributeError there
ResultDataOfResponse(parsed) ==
    CASE ~Truthy(parsed) -> [raised |-> FALSE, unmatched |-> PyDict(EmptyDict)]
      [] parsed.t = "list" ->
           IF \A i \in DOMAIN parsed.v : parsed.v[i].t = "dict"
           THEN [raised |-> FALSE,
                 unmatched |-> PyDict(ListToDict([i \in DOMAIN parsed.v |-> parsed.v[i].v]))]
           ELSE [raised |-> TRUE, unmatched |-> PyNone]
      [] OTHER -> [raised |-> FALSE, unmatched |-> parsed]

\* What _process_response gives: [dm, client, raised, output], and what the
\* passes saw: dm_before (the DataManager on entry), hp_input (the data given
\* to the heuristic pass), hp (what that pass returned) and passes (the
\* results appended)
Processed(dm_before, d, c, raised, output, hp_input, hp) ==
    [dm |-> d, client |-> c, raised |-> raised, output |-> output,
     dm_before |-> dm_before, hp_input |-> hp_input, hp |-> hp,
     passes |-> Len(d.results) - Len(dm_before.results)]

\* lines 221-224: finalize_output, then unmatched_data and errors are set
_process_response_finalize(dm, cl, hp_input, hp, fin) ==
    IF fin.raised THEN Processed(dm, fin.dm, cl, TRUE, PyNone, hp_input, hp)
    ELSE Processed(dm, fin.dm,
                   [cl EXCEPT !.unmatched_data = fin.dm.unmatched,
                              !.errors = fin.dm.errors],
                   FALSE, fin.output, hp_input, hp)

\* lines 217-220: a3 is what add_result gave for the result of ml_processor
_process_response_ml_added(dm, sh, cl, hp_input, hp, a3) ==
    IF a3.raised THEN Processed(dm, a3.dm, cl, TRUE, PyNone, hp_input, hp)
    ELSE _process_response_finalize(dm, cl, hp_input, hp,
                                    finalize_output(a3.dm, sh, FALSE))

\* lines 217-219: ml is what ml_processor.process gave
_process_response_ml(dm, sh, cl, hp_input, hp, a2, ml) ==
    IF ml.raised THEN Processed(dm, a2.dm, cl, TRUE, PyNone, hp_input, hp)
    ELSE _process_response_ml_added(dm, sh, cl, hp_input, hp,
                                    add_result(a2.dm, ml.result))

\* lines 213-216: a2 is what add_result gave for the result of
\* heuristic_processor
_process_response_hp_added(dm, sh, cl, order, oracle, hp_input, hp, a2) ==
    IF a2.raised THEN Processed(dm, a2.dm, cl, TRUE, PyNone, hp_input, hp)
    ELSE _process_response_ml(dm, sh, cl, hp_input, hp, a2,
             MachineLearningProcessor_process(sh, a2.dm.unmatched, oracle, order))

\* lines 213-215: hp is what heuristic_processor.process gave
_process_response_hp(dm, sh, cl, order, oracle, a1, hp) ==
    IF hp.raised # NoError
    THEN Processed(dm, a1.dm, cl, TRUE, PyNone, a1.dm.unmatched, hp)
    ELSE _process_response_hp_added(dm, sh, cl, order, oracle, a1.dm.unmatched, hp,
                                    add_result(a1.dm, hp))

\* line 212 on: a1 is what add_result gave for ResultData(unmatched=parsed)
_process_response_added(dm, sh, cl, order, oracle, a1) ==
    IF a1.raised THEN Processed(dm, a1.dm, cl, TRUE, PyNone, NotCalled, NotCalled)
    ELSE _process_response_hp(dm, sh, cl, order, oracle, a1,
                              HeuristicProcessor_process(sh, a1.dm.unmatched, order))

\* line 212: rd is ResultData(unmatched=parsed_response)
_process_response_parsed(dm, sh, cl, order, oracle, rd) ==
    IF rd.raised THEN Processed(dm, dm, cl, TRUE, PyNone, NotCalled, NotCalled)
    ELSE _process_response_added(dm, sh, cl, order, oracle,
             IF rd.unmatched.t = "dict"
             THEN add_result(dm, ResultData(EmptyDict, rd.unmatched.v, EmptyDict))
             \* data_manager.py line 74: a value that is no dict has no items()
             ELSE [dm |-> [dm EXCEPT !.results =
                              Append(@, ResultData(EmptyDict, rd.unmatched, EmptyDict))],
                   raised |-> TRUE])

\* OpenAI_JSON._process_response (lines 206-227) on what send_query
\* returned; json.loads(None) raises TypeError, of an undecodable text
\* JSONDecodeError
_process_response(dm, sh, cl, response, order, oracle) ==
    IF response = PyNone \/ response.json = Undecodable
    THEN Processed(dm, dm, cl, TRUE, PyNone, NotCalled, NotCalled)
    ELSE _process_response_parsed(dm, sh, cl, order, oracle,
                                  ResultDataOfResponse(response.json))

\* the record of one request()/async_request() call
RequestRecord(kind, schema, concurrent) ==
    [kind       |-> kind,        \* "sync" or "async"
     schema     |-> schema,      \* the schema argument
     concurrent |-> concurrent,  \* the calls in flight when this one began
     pc         |-> "prepare",   \* "awaiting" the API, or "done"
     left       |-> retries,     \* the local `retries` of _retry_request
     outcome    |-> "pending",   \* "raised" or "returned"
     result     |-> PyNone,      \* the dict returned
     calls      |-> 0,           \* the API calls made for it
     attempts   |-> <<>>,        \* what the API gave to each of them
     send_error |-> "",          \* the exception that left send_query
     response   |-> PyNone,      \* the content send_query returned
     processed  |-> FALSE,       \* _process_response was entered
     passes     |-> 0,
     dm_before  |-> NotCalled,
     used_schema |-> PyNone,     \* the normalized schema of the passes
     hp_input   |-> NotCalled,
     hp         |-> NotCalled,
     matched_after |-> EmptyDict, \* data_manager.matched when the call ended
     errors_after  |-> EmptyDict] \* client.errors when the call ended

\* the call raised before the try of request()/async_request()
RequestRaised(req) == [req EXCEPT !.pc = "done", !.outcome = "raised"]

\* `except Exception: return {}` (lines 152-154, 183-185)
RequestFailed(req, calls) ==
    [req EXCEPT !.pc = "done", !.outcome = "returned",
                !.result = PyDict(EmptyDict), !.calls = calls]

\* the try of request()/async_request() from the content on
RequestProcessed(req, calls, response, sh, p) ==
    [req EXCEPT !.pc = "done", !.outcome = "returned",
                !.result = IF p.raised THEN PyDict(EmptyDict) ELSE p.output,
                !.calls = calls, !.response = response, !.processed = TRUE,
                !.passes = p.passes, !.dm_before = p.dm_before,
                !.used_schema = sh.normalized_schema,
                !.hp_input = p.hp_input, !.hp = p.hp,
                !.matched_after = p.dm.matched, !.errors_after = p.client.errors]

(***************************************************************************)
(* SpecDM: a DataManager driven by arbitrary add_result and                *)
(* finalize_output calls.                                                  *)
(***************************************************************************)
MaxPasses == 2

DMKeys == {"key1", "key2"}
DMVals == {"value1", "value2"}
DMRawVals == {"raw"}

\* the ResultData arguments of the calls
DMResults ==
    {ResultData(m, u, e) : m \in DictsOver(DMKeys, DMVals),
                           u \in SmallDicts(DMKeys, DMRawVals),
                           e \in SmallDicts(DMKeys, DMRawVals)}

\* the handler the tests give the DataManager: key1 has an original spelling
DMSchemaHandler ==
    [SchemaHandlerInit EXCEPT
       !.original_schema   = PyDict([k \in {"Key 1"} |-> PyStr("string")]),
       !.normalized_schema =
           PyDict([k \in {"key1"} |-> PyDict([t \in {K_type} |-> PyStr("string")])]),
       !.key_mapping       = [k \in {"key1"} |-> "Key 1"]]

InitDM ==
    /\ data_manager = DataManagerInit
    /\ dm_output = PyNone
    /\ schema_handler = DMSchemaHandler
    /\ hp_call = NotCalled
    /\ ml_call = NotCalled
    /\ client = NotCalled
    /\ requests = <<>>
    /\ sh_calls = <<>>
    /\ nt_call = NotCalled

DMAddResult(r) ==
    /\ Len(data_manager.results) < MaxPasses
    /\ data_manager' = add_result(data_manager, r).dm
    /\ UNCHANGED <<nt_call, sh_calls, dm_output, schema_handler, hp_call, ml_call, client, requests>>

\* the call and what it returned are kept in dm_output
DMFinalizeOutput(reconcile) ==
    /\ LET f == finalize_output(data_manager, schema_handler, reconcile)
       IN  /\ data_manager' = f.dm
           /\ dm_output' = [t |-> "call", reconcile |-> reconcile,
                            before |-> data_manager, after |-> f.dm,
                            output |-> f.output, raised |-> f.raised]
    /\ UNCHANGED <<nt_call, sh_calls, schema_handler, hp_call, ml_call, client, requests>>

NextDM ==
    \/ \E r \in DMResults : DMAddResult(r)
    \/ \E reconcile \in BOOLEAN : DMFinalizeOutput(reconcile)

SpecDM == InitDM /\ [][NextDM]_vars

(***************************************************************************)
(* SpecHP: a HeuristicProcessor over a SchemaHandler to which schemas are  *)
(* submitted, called with arbitrary data trees.                            *)
(***************************************************************************)
k_tags == <<"t","a","g","s">>
k_age  == <<"a","g","e">>
k_user == <<"u","s","e","r">>
k_note == <<"n","o","t","e">>

TypeField(json_type) == PyDict(K_type :> PyStr(json_type))

\* the schemas submitted: flat with long and shorthand fields, flat with
\* Python types, and a JSON Schema document with nested fields
HPSchemas ==
    { PyDict(k_tags :> TypeField("array") @@ k_age :> TypeField("integer")),
      PyDict(k_tags :> PyDict(K_type :> PyStr("array") @@ K_items :> TypeField("integer"))
             @@ k_age :> PyStr("number")),
      PyDict(k_age :> PyType("int") @@ k_user :> PyType("str") @@ k_tags :> PyType("list")),
      PyDict(K_type :> PyStr("object")
             @@ K_properties :> PyDict(
                  k_tags :> PyDict(K_type :> PyStr("array")
                                   @@ K_items :> PyDict(
                                        K_type :> PyStr("object")
                                        @@ K_properties :> PyDict(k_age :> TypeField("integer"))))
                  @@ k_user :> PyDict(K_type :> PyStr("object")
                                      @@ K_properties :> PyDict(k_age :> TypeField("number"))))) }

\* the values of the data trees
HPValues ==
    { PyInt(5), PyFloat(235), PyBool(TRUE), PyNone,
      PyStr("231"), PyStr("abc"), PyStr("a, b"),
      PyList(<<>>), PyList(<<PyStr("231"), PyInt(5)>>),
      PyList(<<PyStr("abc"), PyInt(5), PyStr("231")>>),
      PyList(<<PyDict(k_age :> PyStr("231"))>>),
      PyList(<<PyDict(k_note :> PyInt(5))>>),
      PyDict(k_age :> PyInt(5)), PyDict(k_age :> PyStr("abc")),
      PyStr("23.5"), PyStr("five"),
      PyDict(k_note :> PyDict(k_age :> PyStr("231") @@ k_note :> PyInt(5))),
      PyDict(K_type :> PyStr("abc")) }

HPDataKeys == {k_tags, k_age, k_user}

\* the data trees: at most two keys at the top
HPData ==
    UNION {[S -> HPValues] : S \in {T \in SUBSET HPDataKeys : Cardinality(T) <= 2}}

\* the orders in which the dicts of the schemas and of the data hold their keys
HPOrders ==
    { <<K_type, K_properties, K_items, k_tags, k_age, k_user, k_note>>,
      <<k_note, k_user, k_age, k_tags, K_items, K_properties, K_type>> }

InitHP ==
    /\ data_manager = DataManagerInit
    /\ dm_output = PyNone
    /\ schema_handler = SchemaHandlerInit
    /\ hp_call = NotCalled
    /\ ml_call = NotCalled
    /\ client = NotCalled
    /\ requests = <<>>
    /\ sh_calls = <<>>
    /\ nt_call = NotCalled

\* the handler is given its schema once, before or after calls of process
HPSubmitSchema(schema, order) ==
    /\ ~SchemaSubmitted(schema_handler)
    /\ schema_handler' = submit_schema(schema_handler, schema, order).sh
    /\ UNCHANGED <<nt_call, sh_calls, data_manager, dm_output, hp_call, ml_call, client, requests>>

\* process is a function of the handler and the data: one call is followed
HPProcess(data, order) ==
    /\ ~hp_call.called
    /\ hp_call' = [called |-> TRUE,
                   data   |-> data,
                   schema |-> schema_handler.normalized_schema,
                   result |-> HeuristicProcessor_process(schema_handler, data, order)]
    /\ UNCHANGED <<nt_call, sh_calls, data_manager, dm_output, schema_handler, ml_call, client, requests>>

NextHP ==
    \/ \E schema \in HPSchemas, order \in HPOrders : HPSubmitSchema(schema, order)
    \/ \E data \in HPData, order \in HPOrders : HPProcess(data, order)

SpecHP == InitHP /\ [][NextHP]_vars

(***************************************************************************)
(* SpecML: the fuzzy/semantic pass.  A DataManager holds a first pass of   *)
(* unmatched data, MachineLearningProcessor.process is called on its       *)
(* unmatched map, and the result is accumulated.                           *)
(***************************************************************************)
MLSchema == PyDict(k_age :> TypeField("integer") @@ k_tags :> TypeField("array"))
MLOrder  == <<k_age, k_tags, k_note, k_user>>
MLSchemaKeys == {k_age, k_tags}
MLDataKeys   == {k_note, k_user}
MLData == DictsOver(MLDataKeys, {PyInt(5), PyStr("abc")})

\* the scores at and above the thresholds
MLScores == {75, 76}
MLOracles ==
    [ratio      : [MLDataKeys \X MLSchemaKeys -> MLScores],
     similarity : [MLDataKeys \X MLSchemaKeys -> MLScores],
     fails      : {{}, {k_note}}]

InitML ==
    /\ data_manager = DataManagerInit
    /\ dm_output = PyNone
    /\ schema_handler = submit_schema(SchemaHandlerInit, MLSchema, MLOrder).sh
    /\ hp_call = NotCalled
    /\ ml_call = NotCalled
    /\ client = NotCalled
    /\ requests = <<>>
    /\ sh_calls = <<>>
    /\ nt_call = NotCalled

\* the pass that leaves the data unmatched
MLSeed(data) ==
    /\ data_manager.results = <<>>
    /\ data_manager' = add_result(data_manager, ResultData(EmptyDict, data, EmptyDict)).dm
    /\ UNCHANGED <<nt_call, sh_calls, dm_output, schema_handler, hp_call, ml_call, client, requests>>

MLProcess(oracle) ==
    /\ Len(data_manager.results) = 1
    /\ ~ml_call.called
    /\ LET r == MachineLearningProcessor_process(schema_handler, data_manager.unmatched,
                                                 oracle, MLOrder)
       IN  ml_call' = [called |-> TRUE, input |-> data_manager.unmatched,
                       oracle |-> oracle, raised |-> r.raised, result |-> r.result,
                       embedded |-> r.embedded, accumulated |-> FALSE]
    /\ UNCHANGED <<nt_call, sh_calls, data_manager, dm_output, schema_handler, hp_call, client, requests>>

MLAccumulate ==
    /\ ml_call.called
    /\ ~ml_call.accumulated
    /\ data_manager' = add_result(data_manager, ml_call.result).dm
    /\ ml_call' = [ml_call EXCEPT !.accumulated = TRUE]
    /\ UNCHANGED <<nt_call, sh_calls, dm_output, schema_handler, hp_call, client, requests>>

NextML ==
    \/ \E data \in MLData : MLSeed(data)
    \/ \E oracle \in MLOracles : MLProcess(oracle)
    \/ MLAccumulate

SpecML == InitML /\ [][NextML]_vars

(***************************************************************************)
(* SpecSH: a SchemaHandler on which submit_schema and add_field are called *)
(* in any order; sh_calls keeps the calls with the handler before and      *)
(* after each.                                                             *)
(***************************************************************************)
MaxSchemaCalls == 3

k_Age == <<"A","g","e">>

\* a str given as a field name
FieldName(chars) == [t |-> "text", v |-> chars]

\* the schemas submitted: flat ones, one of them with two spellings of a
\* key, documents with the fields under "properties", a flat one with a
\* field that is no field, and a value that is no schema
SHSchemas ==
    { PyDict(k_Age :> PyStr("integer")),
      PyDict(k_age :> TypeField("string") @@ k_tags :> TypeField("array")),
      PyDict(k_Age :> PyStr("integer") @@ k_age :> PyStr("number")),
      PyDict(K_type :> PyStr("object")
             @@ K_properties :> PyDict(k_Age :> TypeField("integer"))),
      PyDict(K_type :> PyStr("object")
             @@ K_properties :> PyDict(k_age :> TypeField("string")
                                       @@ k_tags :> TypeField("array"))),
      PyDict(k_age :> PyStr("integer") @@ k_note :> PyInt(5)),
      PyList(<<>>) }

SHOrders ==
    { <<K_type, K_properties, k_Age, k_age, k_tags, k_note>>,
      <<k_note, k_tags, k_age, k_Age, K_properties, K_type>> }

SHFieldNames == {FieldName(k_Age), FieldName(k_age), FieldName(k_note), PyNone}
SHFieldSchemas == {TypeField("array"), PyStr("string")}

\* the arguments of register_type: a host type under the name of a
\* built-in type and under a new name, and a value that is no type
SHTypeRegistrations ==
    { <<PyType("datetime"), PyStr("string")>>,
      <<PyType("datetime"), PyStr("timestamp")>>,
      <<PyStr("datetime"), PyStr("string")>> }

InitSH ==
    /\ data_manager = DataManagerInit
    /\ dm_output = PyNone
    /\ schema_handler = SchemaHandlerInit
    /\ hp_call = NotCalled
    /\ ml_call = NotCalled
    /\ client = NotCalled
    /\ requests = <<>>
    /\ sh_calls = <<>>
    /\ nt_call = NotCalled

SHSubmitSchema(schema, order) ==
    /\ Len(sh_calls) < MaxSchemaCalls
    /\ LET r == submit_schema(schema_handler, schema, order)
       IN  /\ schema_handler' = r.sh
           /\ sh_calls' = Append(sh_calls,
                  [op |-> "submit_schema", name |-> PyNone, schema |-> schema,
                   order |-> order, raised |-> IF r.raised THEN "ValueError" ELSE NoErrorSH,
                   before |-> schema_handler, after |-> r.sh])
    /\ UNCHANGED <<nt_call, data_manager, dm_output, hp_call, ml_call, client, requests>>

SHAddField(field_name, field_schema) ==
    /\ Len(sh_calls) < MaxSchemaCalls
    /\ LET r == add_field(schema_handler, field_name, field_schema)
       IN  /\ schema_handler' = r.sh
           /\ sh_calls' = Append(sh_calls,
                  [op |-> "add_field", name |-> field_name, schema |-> field_schema,
                   order |-> <<>>, raised |-> r.raised,
                   before |-> schema_handler, after |-> r.sh])
    /\ UNCHANGED <<nt_call, data_manager, dm_output, hp_call, ml_call, client, requests>>

SHRegisterType(python_type, json_type) ==
    /\ Len(sh_calls) < MaxSchemaCalls
    /\ LET r == register_type(schema_handler, python_type, json_type)
       IN  /\ schema_handler' = r.sh
           /\ sh_calls' = Append(sh_calls,
                  [op |-> "register_type", name |-> python_type, schema |-> json_type,
                   order |-> <<>>, raised |-> r.raised,
                   before |-> schema_handler, after |-> r.sh])
    /\ UNCHANGED <<nt_call, data_manager, dm_output, hp_call, ml_call, client, requests>>

NextSH ==
    \/ \E schema \in SHSchemas, order \in SHOrders : SHSubmitSchema(schema, order)
    \/ \E field_name \in SHFieldNames, field_schema \in SHFieldSchemas :
          SHAddField(field_name, field_schema)
    \/ \E reg \in SHTypeRegistrations : SHRegisterType(reg[1], reg[2])

SpecSH == InitSH /\ [][NextSH]_vars

(***************************************************************************)
(* SpecNT: normalize_text applied to a text, and again to what it gave.    *)
(* The texts are over letters of both cases, a digit, the delimiters the   *)
(* function replaces and punctuation it has no rule for.                   *)
(***************************************************************************)
MaxTextLen == 4
MaxNormalizeCalls == 2

NTChars == {"a", "B", "1", " ", "_", "-", "&", "(", ")", "."}

NTTexts == UNION {[1..n -> NTChars] : n \in 0..MaxTextLen}

InitNT ==
    /\ data_manager = DataManagerInit
    /\ dm_output = PyNone
    /\ schema_handler = SchemaHandlerInit
    /\ hp_call = NotCalled
    /\ ml_call = NotCalled
    /\ client = NotCalled
    /\ requests = <<>>
    /\ sh_calls = <<>>
    /\ \E text \in NTTexts : nt_call = [called |-> TRUE, text |-> text, results |-> <<>>]

\* normalize_text is called on the text, then on the result of the call before
NTNormalize ==
    /\ Len(nt_call.results) < MaxNormalizeCalls
    /\ nt_call' = [nt_call EXCEPT !.results =
                      Append(@, normalize_text(IF @ = <<>> THEN nt_call.text
                                               ELSE @[Len(@)]))]
    /\ UNCHANGED <<data_manager, dm_output, schema_handler, hp_call, ml_call,
                   client, requests, sh_calls>>

NextNT == NTNormalize

SpecNT == InitNT /\ [][NextNT]_vars

(***************************************************************************)
(* Spec: an OpenAI_JSON client on which request() and async_request() are  *)
(* called; an async_request gives way to the other calls while it awaits   *)
(* the API.                                                                *)
(***************************************************************************)
MaxRequests == 2

SchemaA == PyDict(k_age :> PyStr("integer"))
SchemaB == PyDict(k_tags :> TypeField("array") @@ k_age :> TypeField("string"))

\* a str given as schema: its text and what json.loads makes of it
SchemaText(text, json) == [t |-> "str", v |-> text, json |-> json]

\* the schema arguments: None, two schemas, and values that are no schema:
\* undecodable texts, lists, and a dict the draft-7 metaschema rejects
ClientSchemas ==
    { PyNone, SchemaA, SchemaB,
      SchemaText("", Undecodable), SchemaText("{", Undecodable),
      PyList(<<>>), PyList(<<PyStr("integer")>>),
      PyDict(K_type :> PyInt(5)) }

\* the schema arguments of the constructor that give a client
ClientInitSchemas == {PyNone, SchemaA}

ClientResponses ==
    { PyDict(k_age :> PyStr("231")),
      PyDict(k_age :> PyStr("abc")),
      PyDict(k_tags :> PyInt(5) @@ k_note :> PyStr("abc")) }

\* what the API gives to one call, and to the calls of one send_query
ClientOutcomes ==
    {Content(r) : r \in ClientResponses}
    \cup {Content(Undecodable), RetryableError, FatalError, CallValueError}
ClientAttempts ==
    {<<Content(r)>> : r \in ClientResponses}
    \cup {<<Content(Undecodable), Content(r)>> : r \in ClientResponses}
    \cup {<<RetryableError>>, <<FatalError>>, <<Content(Undecodable)>>,
          <<RetryableError, Content(Undecodable)>>,
          <<RetryableError, FatalError>>, <<CallValueError>>}

ClientKeys  == {k_age, k_tags, k_note, k_user}
ClientOrder == <<K_type, k_age, k_tags, k_note, k_user>>
\* the scores of the keys of this specification: equal keys only are alike
ClientOracle ==
    [ratio      |-> [pair \in ClientKeys \X ClientKeys |->
                        IF pair[1] = pair[2] THEN 100 ELSE 0],
     similarity |-> [pair \in ClientKeys \X ClientKeys |->
                        IF pair[1] = pair[2] THEN 100 ELSE 0],
     fails      |-> {}]

\* OpenAI_JSON.__init__ (lines 90-103) with a schema it accepts
OpenAI_JSON_init_apis(sh) == [sh |-> sh, client |-> _init_apis(ClientInit, sh).client]
OpenAI_JSON_init(schema) ==
    IF Truthy(schema)
    THEN OpenAI_JSON_init_apis(submit_schema(SchemaHandlerInit, schema, ClientOrder).sh)
    ELSE [sh |-> SchemaHandlerInit, client |-> ClientInit]

InitClient(c) ==
    /\ schema_handler = c.sh
    /\ client = c.client

Init ==
    /\ \E schema \in ClientInitSchemas : InitClient(OpenAI_JSON_init(schema))
    /\ data_manager = DataManagerInit
    /\ dm_output = PyNone
    /\ hp_call = NotCalled
    /\ ml_call = NotCalled
    /\ requests = <<>>
    /\ sh_calls = <<>>
    /\ nt_call = NotCalled

\* the calls that await the API
InFlight == {i \in DOMAIN requests : requests[i].pc = "awaiting"}

\* request() after _process_response
RequestReturn(req, q, s, p) ==
    /\ client' = p.client
    /\ data_manager' = p.dm
    /\ requests' = Append(requests, RequestProcessed(req, s.calls, s.content, q.sh, p))

\* the outcomes of the calls of a send_query and the exception it raised
SendQueryDone(req, attempts, s) ==
    [req EXCEPT !.attempts = [j \in 1..s.calls |-> OutcomeAt(attempts, j)],
                !.send_error = s.error]

\* request() after send_query (lines 150-154)
RequestSent(req, q, s) ==
    IF s.outcome = "raised"
    THEN /\ client' = [q.client EXCEPT !.api_calls = @ + s.calls]
         /\ requests' = Append(requests, RequestFailed(req, s.calls))
         /\ UNCHANGED data_manager
    ELSE RequestReturn(req, q, s,
             _process_response(data_manager, q.sh,
                               [q.client EXCEPT !.api_calls = @ + s.calls],
                               s.content, ClientOrder, ClientOracle))

\* request() after _prepare_query (line 148)
RequestPrepared(req, q, attempts) ==
    /\ schema_handler' = q.sh
    /\ IF q.raised
       THEN /\ client' = q.client
            /\ requests' = Append(requests, RequestRaised(req))
            /\ UNCHANGED data_manager
       ELSE RequestSent(SendQueryDone(req, attempts, send_query(attempts)),
                        q, send_query(attempts))

\* OpenAI_JSON.request (lines 124-154): the whole call
Request(schema, attempts) ==
    /\ Len(requests) < MaxRequests
    /\ RequestPrepared(RequestRecord("sync", schema, InFlight),
                       _prepare_query(client, schema_handler, schema, ClientOrder),
                       attempts)
    /\ UNCHANGED <<nt_call, sh_calls, dm_output, hp_call, ml_call>>

\* async_request() after _prepare_query (line 179)
AsyncRequestPrepared(req, q) ==
    /\ schema_handler' = q.sh
    /\ IF q.raised
       THEN /\ client' = q.client
            /\ requests' = Append(requests, RequestRaised(req))
       ELSE /\ client' = [q.client EXCEPT !.api_calls = @ + 1]
            /\ requests' = Append(requests, [req EXCEPT !.pc = "awaiting", !.calls = 1])

\* OpenAI_JSON.async_request (lines 156-185) up to its first await: the
\* query is prepared and the first call of the API is made
AsyncRequest(schema) ==
    /\ Len(requests) < MaxRequests
    /\ AsyncRequestPrepared(RequestRecord("async", schema, InFlight),
                            _prepare_query(client, schema_handler, schema, ClientOrder))
    /\ UNCHANGED <<nt_call, sh_calls, data_manager, dm_output, hp_call, ml_call>>

\* async_request() after _process_response
AsyncReturn(i, outcome, p) ==
    /\ client' = p.client
    /\ data_manager' = p.dm
    /\ requests' = [requests EXCEPT ![i] =
           RequestProcessed([requests[i] EXCEPT !.attempts = Append(@, outcome)],
                            requests[i].calls, outcome, schema_handler, p)]

\* the rest of the loop of _retry_request (lines 100-130) when the call of
\* the API gave r
AsyncRetry(i, outcome, r) ==
    IF ~r.raised
    THEN AsyncReturn(i, outcome,
             _process_response(data_manager, schema_handler, client, outcome,
                               ClientOrder, ClientOracle))
    ELSE IF ~r.retryable \/ requests[i].left - 1 = 0
    THEN /\ requests' = [requests EXCEPT ![i] =
               [RequestFailed(@, @.calls) EXCEPT
                  !.attempts = Append(@, outcome),
                  !.send_error = IF r.retryable THEN "RuntimeError" ELSE "APIError"]]
         /\ UNCHANGED <<client, data_manager>>
    ELSE /\ requests' = [requests EXCEPT ![i].left = @ - 1, ![i].calls = @ + 1,
                                         ![i].attempts = Append(@, outcome)]
         /\ client' = [client EXCEPT !.api_calls = @ + 1]
         /\ UNCHANGED data_manager

\* async_request i resumes with the outcome of its call of the API
AsyncResume(i, outcome) ==
    /\ i \in InFlight
    /\ AsyncRetry(i, outcome, request_func(outcome))
    /\ UNCHANGED <<nt_call, sh_calls, schema_handler, dm_output, hp_call, ml_call>>

Next ==
    \/ \E schema \in ClientSchemas, attempts \in ClientAttempts : Request(schema, attempts)
    \/ \E schema \in ClientSchemas : AsyncRequest(schema)
    \/ \E i \in DOMAIN requests, outcome \in ClientOutcomes : AsyncResume(i, outcome)

Spec == Init /\ [][Next]_vars

(***************************************************************************)
(* SpecAPI: an APIInterface or AsyncAPIInterface built with a value of     *)
(* `retries`, on which send_query is called once.                          *)
(***************************************************************************)
MaxRetries == 3
MaxQueries == 2

\* the values of `retries` the interface is built with
APIRetries == (0 - 1)..MaxRetries

APIOutcomes ==
    {Content(PyDict(k_age :> PyInt(5))), Content(Undecodable),
     RetryableError, FatalError, CallValueError}

\* what the API gives to the calls of the send_query, the last one repeating
APIAttempts == {<<a>> : a \in APIOutcomes} \cup (APIOutcomes \X APIOutcomes)

InitAPI ==
    /\ data_manager = DataManagerInit
    /\ dm_output = PyNone
    /\ schema_handler = SchemaHandlerInit
    /\ hp_call = NotCalled
    /\ ml_call = NotCalled
    /\ \E n \in APIRetries : client = [called |-> FALSE, retries |-> n]
    /\ requests = <<>>
    /\ sh_calls = <<>>
    /\ nt_call = NotCalled

\* send_query of the interface, sync or async: the whole call
APISendQuery(kind, attempts) ==
    /\ Len(requests) < MaxQueries
    /\ LET s == send_query_configured(attempts, client.retries)
       IN  requests' = requests \o <<[kind |-> kind, retries |-> client.retries,
                          attempts |-> [j \in 1..s.calls |-> OutcomeAt(attempts, j)],
                          outcome |-> s.outcome, calls |-> s.calls,
                          content |-> s.content, send_error |-> s.error]>>
    /\ UNCHANGED <<data_manager, dm_output, schema_handler, hp_call, ml_call,
                   client, sh_calls, nt_call>>

NextAPI == \E kind \in {"sync", "async"}, attempts \in APIAttempts :
              APISendQuery(kind, attempts)

SpecAPI == InitAPI /\ [][NextAPI]_vars

(***************************************************************************)
(* Claims about the DataManager, checked under SpecDM                      *)
(***************************************************************************)
\* a step of SpecDM that is an add_result call
IsAddResultStep == Len(data_manager'.results) = Len(data_manager.results) + 1

\* the argument of the add_result call of such a step
AddedResult == data_manager'.results[Len(data_manager'.results)]

\* the partition the add_result calls alone maintain for a history
RECURSIVE IncrementalPartition(_, _)
IncrementalPartition(results, n) ==
    IF n = 0 THEN DataManagerInit
    ELSE add_result(IncrementalPartition(results, n - 1), results[n]).dm

SamePartition(a, b) ==
    /\ a.matched = b.matched
    /\ a.unmatched = b.unmatched
    /\ a.errors = b.errors

\* C1: after any sequence of add_result calls the key sets of matched,
\* unmatched and errors are pairwise disjoint.
C1_PairwiseDisjoint ==
    LET inc == IncrementalPartition(data_manager.results, Len(data_manager.results))
    IN  /\ Keys(inc.matched) \cap Keys(inc.unmatched) = {}
        /\ Keys(inc.matched) \cap Keys(inc.errors) = {}
        /\ Keys(inc.unmatched) \cap Keys(inc.errors) = {}

\* C7: add_result(r) stores r.matched[k] under every key k of r.matched
\* (last write wins), removes k from unmatched and errors, and leaves the
\* matched entries of the other keys as they were.
C7_MatchedRule ==
    [][IsAddResultStep =>
         /\ \A k \in Keys(AddedResult.matched) :
               /\ k \in Keys(data_manager'.matched)
               /\ data_manager'.matched[k] = AddedResult.matched[k]
               /\ k \notin Keys(data_manager'.unmatched)
               /\ k \notin Keys(data_manager'.errors)
         /\ \A k \in Keys(data_manager.matched) \ Keys(AddedResult.matched) :
               /\ k \in Keys(data_manager'.matched)
               /\ data_manager'.matched[k] = data_manager.matched[k]
         /\ Keys(data_manager'.matched) =
               Keys(data_manager.matched) \cup Keys(AddedResult.matched)]_vars

\* C7 witness: a second pass has overwritten the value the first pass matched
\* for a key, and has matched a key the first pass left in errors.
C7_Witness ==
    /\ Len(data_manager.results) = 2
    /\ \E k \in DMKeys :
          /\ k \in Keys(data_manager.results[1].matched)
          /\ k \in Keys(data_manager.results[2].matched)
          /\ data_manager.results[1].matched[k] # data_manager.results[2].matched[k]
          /\ data_manager.matched[k] = data_manager.results[2].matched[k]
    /\ \E k \in DMKeys :
          /\ k \in Keys(data_manager.results[1].errors)
          /\ k \notin Keys(data_manager.results[1].matched)
          /\ k \in Keys(data_manager.results[2].matched)
          /\ k \notin Keys(data_manager.errors)

\* C8: after add_result(r) the keys of unmatched are exactly the keys of
\* r.unmatched that are not matched, every key of errors is a key of r.errors
\* that is not matched, and the unmatched (errors) keys r does not list are gone.
C8_PruningRule ==
    [][IsAddResultStep =>
         /\ Keys(data_manager'.unmatched) =
               Keys(AddedResult.unmatched) \ Keys(data_manager'.matched)
         /\ Keys(data_manager'.errors) \subseteq
               Keys(AddedResult.errors) \ Keys(data_manager'.matched)
         /\ \A k \in Keys(data_manager.unmatched) \ Keys(AddedResult.unmatched) :
               k \notin Keys(data_manager'.unmatched)
         /\ \A k \in Keys(data_manager.errors) \ Keys(AddedResult.errors) :
               k \notin Keys(data_manager'.errors)]_vars

\* C8 witness: the first pass listed a key as unmatched and another as an
\* error, the second pass lists neither, and both are gone.
C8_Witness ==
    /\ Len(data_manager.results) = 2
    /\ data_manager = IncrementalPartition(data_manager.results, 2)
    /\ \E k \in DMKeys :
          /\ k \in Keys(data_manager.results[1].unmatched)
          /\ k \notin Keys(data_manager.results[1].matched)
          /\ k \notin Keys(data_manager.results[2].unmatched)
          /\ k \notin Keys(data_manager.results[2].matched)
          /\ k \notin Keys(data_manager.unmatched)
    /\ \E k \in DMKeys :
          /\ k \in Keys(data_manager.results[1].errors)
          /\ k \notin Keys(data_manager.results[1].matched)
          /\ k \notin Keys(data_manager.results[1].unmatched)
          /\ k \notin Keys(data_manager.results[2].errors)
          /\ k \notin Keys(data_manager.errors)
    /\ data_manager.unmatched # EmptyDict

\* C10: for every pass history the partition _reconcile recomputes from the
\* history equals the one the add_result calls maintained incrementally.
C10_ReconcileEqualsIncremental ==
    SamePartition(_reconcile(data_manager),
                  IncrementalPartition(data_manager.results,
                                       Len(data_manager.results)))

\* the finalize_output(reconcile=False) call that dm_output holds
FinalizedIncrementally == dm_output # PyNone /\ ~dm_output.reconcile

\* the original spelling the handler's key mapping gives for a canonical key
OriginalSpelling(k) ==
    IF k \in DOMAIN schema_handler.key_mapping
    THEN schema_handler.key_mapping[k] ELSE k

C24_MatchedIsFinal ==
    [][IsAddResultStep =>
          /\ Keys(data_manager.matched) \subseteq Keys(data_manager'.matched)
          /\ Keys(data_manager'.matched)
                \cap (Keys(data_manager'.unmatched) \cup Keys(data_manager'.errors)) = {}]_vars

\* C24 witness: the first pass matched key1, the second reported it as
\* unmatched and as an error, and it is still matched
C24_Witness ==
    /\ Len(data_manager.results) = 2
    /\ "key1" \in Keys(data_manager.results[1].matched)
    /\ "key1" \notin Keys(data_manager.results[2].matched)
    /\ "key1" \in Keys(data_manager.results[2].unmatched)
    /\ "key1" \in Keys(data_manager.results[2].errors)
    /\ data_manager.matched["key1"] = data_manager.results[1].matched["key1"]

\* C29: finalize_output(reconcile=True) and finalize_output(reconcile=False)
\* return the same mapping for the same history: what the last call
\* returned is what the call with the other argument gives on the state
\* the call was made on
C29_ReconcileSameOutput ==
    dm_output.t = "call" =>
       LET other == finalize_output(dm_output.before, schema_handler,
                                    ~dm_output.reconcile)
       IN  /\ dm_output.raised = other.raised
           /\ dm_output.output = other.output

\* C29 witness: a finalize_output(reconcile=True) has changed the partition
\* of a history of two passes that matched the same key with two values
C29_Witness ==
    /\ dm_output.t = "call"
    /\ dm_output.reconcile
    /\ Len(dm_output.before.results) = 2
    /\ ~SamePartition(dm_output.before, dm_output.after)
    /\ "key1" \in Keys(dm_output.before.results[1].matched)
    /\ "key1" \in Keys(dm_output.before.results[2].matched)
    /\ dm_output.before.results[1].matched["key1"]
          # dm_output.before.results[2].matched["key1"]
    /\ dm_output.output # PyDict(EmptyDict)

(***************************************************************************)
(* Claims about the HeuristicProcessor, checked under SpecHP               *)
(***************************************************************************)
\* the top-level keys of the data of the last call whose field is
\* list-typed and whose value is neither a list nor a str
HPNonListValues ==
    {k \in DOMAIN hp_call.data :
        /\ get_type_from_field(schema_handler,
                               _get_field_definition(hp_call.schema, k).field).type = "list"
        /\ hp_call.data[k].t \notin {"list", "str"}}

\* C4: with a schema submitted, HeuristicProcessor.process returns for every
\* data tree (it does not raise), and a list-typed field whose value is
\* neither a list nor a str is in unmatched at its path
C4_NeverRaisesForShape ==
    (hp_call.called /\ Truthy(hp_call.schema)) =>
        /\ hp_call.result.raised = NoError
        /\ \A k \in HPNonListValues :
              \E i \in DOMAIN hp_call.result.unmatched_keys :
                 hp_call.result.unmatched_keys[i] = <<k, hp_call.data[k]>>

\* the field definition of a top-level key of the data of the last call
HPFieldOf(k) == _get_field_definition(hp_call.schema, normalize_text(k)).field

\* the top-level keys of the data of the last call whose field is
\* list-typed and whose value is a list without dict elements
HPPlainLists ==
    {k \in DOMAIN hp_call.data :
        /\ get_type_from_field(schema_handler, HPFieldOf(k)).type = "list"
        /\ hp_call.data[k].t = "list"
        /\ \A i \in DOMAIN hp_call.data[k].v : hp_call.data[k].v[i].t # "dict"}

\* the item type of such a field: the type of "items", or without one the
\* type of the first element
HPItemType(k) ==
    LET declared == get_type_from_field(schema_handler,
                                        Get(HPFieldOf(k).v, K_items, PyDict(EmptyDict))).type
    IN  IF declared = NoType /\ hp_call.data[k].v # <<>>
        THEN TypeOf(hp_call.data[k].v[1]) ELSE declared

\* element i of the list under k coerces to the item type
HPCoerces(k, i) ==
    LET coerced == _coerce_item_type(hp_call.data[k].v[i], HPItemType(k))
    IN  coerced # PyNone /\ IsInstance(coerced, HPItemType(k))

\* the coerced elements of the list under k, in input order
RECURSIVE HPCoercedItems(_, _)
HPCoercedItems(k, n) ==
    IF n = 0 THEN <<>>
    ELSE HPCoercedItems(k, n - 1)
         \o (IF HPCoerces(k, n)
             THEN <<_coerce_item_type(hp_call.data[k].v[n], HPItemType(k))>>
             ELSE <<>>)

\* the call of process returned, with a schema submitted
HPReturned ==
    hp_call.called /\ Truthy(hp_call.schema) /\ hp_call.result.raised = NoError

\* C17: of a list of non-dict elements under a list-typed field, the
\* elements that coerce to the item type are the matched list, in input
\* order; each element that fails is in errors under '<key>[<index>]' with
\* its raw value, and the elements after it are processed; the field is in
\* matched if and only if an element matched
C17_ListElementWise ==
    HPReturned =>
       \A k \in HPPlainLists :
          LET items   == hp_call.data[k].v
              matched == HPCoercedItems(k, Len(items))
              key     == normalize_text(k)
          IN  /\ (key \in DOMAIN hp_call.result.processed) <=> (matched # <<>>)
              /\ matched # <<>> => hp_call.result.processed[key] = PyList(matched)
              /\ \A i \in DOMAIN items :
                    (~HPCoerces(k, i)) <=>
                       \E n \in DOMAIN hp_call.result.errors :
                          hp_call.result.errors[n] = <<ItemPath(k, i - 1), items[i]>>

\* C17 witness: the first element of a list has failed and the elements
\* after it are the matched list
C17_Witness ==
    /\ HPReturned
    /\ \E k \in HPPlainLists :
          /\ hp_call.data[k] = PyList(<<PyStr("abc"), PyInt(5), PyStr("231")>>)
          /\ hp_call.result.processed[normalize_text(k)] = PyList(<<PyInt(5), PyInt(231)>>)
          /\ hp_call.result.errors = <<<<ItemPath(k, 0), PyStr("abc")>>>>

\* the last call of process was made before a schema was submitted
HPCalledWithoutSchema == hp_call.called /\ ~Truthy(hp_call.schema)

\* the handler as it was at the last call of process
HPHandlerAtCall == [schema_handler EXCEPT !.normalized_schema = hp_call.schema]

\* C14: HeuristicProcessor.process and MachineLearningProcessor.process,
\* called when no schema has been submitted, fail with
\* SchemaNotSubmittedError and return no partition
C14_NoSchemaRaisesSchemaNotSubmitted ==
    HPCalledWithoutSchema =>
       /\ hp_call.result.raised = "SchemaNotSubmittedError"
       /\ hp_call.result.processed = EmptyDict
       /\ hp_call.result.unmatched_keys = <<>>
       /\ hp_call.result.errors = <<>>
       /\ LET ml == MachineLearningProcessor_process(HPHandlerAtCall, hp_call.data,
                                                     ClientOracle, ClientOrder)
          IN  /\ ml.raised
              /\ ml.error = "SchemaNotSubmittedError"
              /\ ml.result = PyNone

\* the fields of the schema of the last call: the properties of a JSON
\* Schema document, the entries of a flat schema
HPSchemaFields ==
    IF K_properties \in DOMAIN hp_call.schema.v
    THEN hp_call.schema.v[K_properties].v ELSE hp_call.schema.v

\* the schema has no field for key k
HPAbsent(k) == k \notin DOMAIN HPSchemaFields

\* the entries of dict d, found at `path`, that the descent through the
\* dicts under keys absent from the schema arrives at: [path, key, value],
\* path the dotted path of canonical keys
RECURSIVE HPDescent(_, _)
HPDescent(d, path) ==
    UNION { LET key == normalize_text(k)
                p   == _build_path(path, key)
            IN  IF HPAbsent(key) /\ d[k].t = "dict"
                THEN HPDescent(d[k].v, p)
                ELSE {[path |-> p, key |-> key, value |-> d[k]]}
            : k \in DOMAIN d }

\* the primitive type of the field of an entry, NoType when its field is
\* list- or dict-typed or absent
HPPrimitiveType(entry) ==
    LET ty == get_type_from_field(schema_handler, HPFieldOf(entry.key)).type
    IN  IF ty \in {"list", "dict"} THEN NoType ELSE ty

\* the entry is under a schema key of primitive type and its value coerces
HPFound(entry) ==
    /\ HPPrimitiveType(entry) # NoType
    /\ IsInstance(_coerce_item_type(entry.value, HPPrimitiveType(entry)),
                  HPPrimitiveType(entry))

\* C18: a dict under a key absent from the schema is descended into
\* against the same schema, to any depth; a schema key found at any depth
\* is in matched under its canonical key, and every non-dict value under a
\* key absent from the schema is in unmatched under the dotted path of
\* canonical keys that leads to it
C18_NestedMissThenFind ==
    HPReturned =>
       \A entry \in HPDescent(hp_call.data, <<>>) :
          /\ HPFound(entry) =>
                /\ entry.key \in DOMAIN hp_call.result.processed
                /\ \E other \in HPDescent(hp_call.data, <<>>) :
                      /\ other.key = entry.key
                      /\ HPFound(other)
                      /\ hp_call.result.processed[entry.key] =
                            _coerce_item_type(other.value, HPPrimitiveType(other))
          /\ (HPAbsent(entry.key) /\ entry.value.t # "dict") =>
                \E n \in DOMAIN hp_call.result.unmatched_keys :
                   hp_call.result.unmatched_keys[n] = <<entry.path, entry.value>>

\* C18 witness: two levels below a key absent from the schema the schema
\* key "age" was found and the key "note" was not
C18_Witness ==
    /\ HPReturned
    /\ k_user \in DOMAIN hp_call.data
    /\ HPAbsent(k_user)
    /\ hp_call.data[k_user] =
          PyDict(k_note :> PyDict(k_age :> PyStr("231") @@ k_note :> PyInt(5)))
    /\ k_age \in DOMAIN hp_call.result.processed
    /\ hp_call.result.processed[k_age] = PyInt(231)
    /\ \E n \in DOMAIN hp_call.result.unmatched_keys :
          hp_call.result.unmatched_keys[n] =
             <<k_user \o <<".">> \o k_note \o <<".">> \o k_note, PyInt(5)>>

\* the top-level keys of the data of the last call whose field is typed
\* integer or number and whose value is a string, in data that holds no
\* dict beside them (a dict may hold the same key at a lower level)
HPNumericStrings ==
    {k \in DOMAIN hp_call.data :
        /\ get_type_from_field(schema_handler, HPFieldOf(k)).type \in {"int", "float"}
        /\ hp_call.data[k].t = "str"
        /\ \A j \in DOMAIN hp_call.data : hp_call.data[j].t # "dict"}

\* what the string s converts to: the numeric literal it holds, or failing
\* that the number its words name
HPParse(s) ==
    LET literal == IF HasDot(s) THEN StrToFloat(s) ELSE StrToInt(s)
    IN  IF literal.ok THEN literal ELSE word_to_num(s)

\* the value of a number, in tenths
HPTenths(x) == IF x.t = "float" THEN x.v ELSE 10 * x.v

\* C19: a string under a primitive field typed integer or number is in
\* matched with its numeric value whenever it parses as a numeric literal,
\* with or without a decimal point, or converts by words-to-number; it is
\* in errors with the original string only when both conversions fail
C19_StringToNumber ==
    HPReturned =>
       \A k \in HPNumericStrings :
          LET key    == normalize_text(k)
              parsed == HPParse(hp_call.data[k].v)
              failed == \E n \in DOMAIN hp_call.result.errors :
                           hp_call.result.errors[n] = <<k, hp_call.data[k]>>
          IN  IF parsed.ok
              THEN /\ key \in DOMAIN hp_call.result.processed
                   /\ hp_call.result.processed[key].t \in {"int", "float"}
                   /\ HPTenths(hp_call.result.processed[key]) = HPTenths(parsed.v)
                   /\ ~failed
              ELSE /\ key \notin DOMAIN hp_call.result.processed
                   /\ failed

\* path is key, or key followed by an index: '<key>[i]'
HPPathOf(path, key) ==
    \/ path = key
    \/ /\ Len(path) > Len(key)
       /\ SubSeq(path, 1, Len(key)) = key
       /\ path[Len(key) + 1] = "["

\* C25: process drops no field: every top-level key of the data whose
\* value is no dict has its canonical key in matched or in unmatched, or
\* an entry of errors under the key or under '<key>[i]'
C25_NoFieldDropped ==
    HPReturned =>
       \A k \in DOMAIN hp_call.data :
          hp_call.data[k].t # "dict" =>
             LET key == normalize_text(k)
             IN  \/ key \in DOMAIN hp_call.result.processed
                 \/ \E n \in DOMAIN hp_call.result.unmatched_keys :
                       hp_call.result.unmatched_keys[n][1] = key
                 \/ \E n \in DOMAIN hp_call.result.errors :
                       HPPathOf(hp_call.result.errors[n][1], key)

(***************************************************************************)
(* Claims about the MachineLearningProcessor, checked under SpecML         *)
(***************************************************************************)
\* the keys given to the last call for which no fuzzy ratio and no
\* similarity exceeds its threshold
MLBelowThresholds ==
    {key \in DOMAIN ml_call.input :
        /\ key \notin ml_call.oracle.fails
        /\ \A sk \in MLSchemaKeys :
              /\ ml_call.oracle.ratio[<<key, sk>>] <= misspelling_threshold
              /\ ml_call.oracle.similarity[<<key, sk>>] <= synonym_threshold}

\* C6: a key for which neither score exceeds its threshold is, with its raw
\* value, in the unmatched map MachineLearningProcessor.process returns, and
\* in the accumulated unmatched map once that result has been added
C6_BelowThresholdStaysUnmatched ==
    ml_call.called =>
        \A key \in MLBelowThresholds :
           /\ key \in DOMAIN ml_call.result.unmatched
           /\ ml_call.result.unmatched[key] = ml_call.input[key]
           /\ ml_call.accumulated =>
                 /\ key \in DOMAIN data_manager.unmatched
                 /\ data_manager.unmatched[key] = ml_call.input[key]

\* the schema keys in the order process iterates them
MLSchemaKeySeq == IterKeys(schema_handler.normalized_schema.v, MLOrder)

\* the keys of the data of the last call whose best surface score over the
\* schema keys exceeds the surface threshold
MLSurfaceAccepted ==
    {key \in DOMAIN ml_call.input :
        \E sk \in MLSchemaKeys :
           ml_call.oracle.ratio[<<key, sk>>] > misspelling_threshold}

\* the schema key with the best surface score for a key
MLSurfaceBest(key) ==
    BestMatch(ml_call.oracle.ratio, key, MLSchemaKeySeq, Len(MLSchemaKeySeq)).match.v

\* what process returns for the data that holds one entry of the input only
MLAlone(key) ==
    MachineLearningProcessor_process(schema_handler, key :> ml_call.input[key],
                                     ml_call.oracle, MLOrder).result

MLEmbeddingFailed == ml_call.embedded \cap ml_call.oracle.fails

\* C13: a failure of the embedding backend for a key is caught: process
\* raises nothing, the key is in the unmatched map of the result and in
\* neither matched nor errors, and the other keys are processed as they are
\* without it
C13_EmbeddingFailureLeavesUnmatched ==
    ml_call.called =>
       /\ ~ml_call.raised
       /\ \A key \in MLEmbeddingFailed :
             /\ key \in DOMAIN ml_call.result.unmatched
             /\ key \notin DOMAIN ml_call.result.errors
             /\ \A other \in DOMAIN ml_call.input \ {key} :
                   DOMAIN MLAlone(other).matched \subseteq DOMAIN ml_call.result.matched

\* the type the schema declares for key k
MLDeclaredType(k) ==
    get_type_from_field(schema_handler, schema_handler.normalized_schema.v[k]).type

\* C26: every value of the final matched map has the type the schema
\* declares for its key, also when the fuzzy/semantic matcher re-homed it
\* onto the key
C26_MatchedValuesTyped ==
    (ml_call.called /\ ml_call.accumulated) =>
       \A k \in Keys(data_manager.matched) :
          /\ k \in DOMAIN schema_handler.normalized_schema.v
          /\ IsInstance(data_manager.matched[k], MLDeclaredType(k))

(***************************************************************************)
(* Claims about the SchemaHandler, checked under SpecSH                    *)
(***************************************************************************)
\* the submit_schema calls that raised nothing
SuccessfulSubmits ==
    {i \in DOMAIN sh_calls :
        sh_calls[i].op = "submit_schema" /\ sh_calls[i].raised = NoErrorSH}

\* a schema is a document when its fields sit under "properties"
IsDocument(schema) ==
    K_properties \in DOMAIN schema.v /\ schema.v[K_properties].t = "dict"

\* the canonical field keys of a normalized schema
CanonicalFieldKeys(normalized_schema) ==
    IF IsDocument(normalized_schema)
    THEN DOMAIN normalized_schema.v[K_properties].v
    ELSE DOMAIN normalized_schema.v

\* C15: after a successful submit_schema, of a flat schema or of a document,
\* every canonical field key of the normalized schema has an entry in
\* key_mapping, and the original key of that entry normalizes to it
C15_KeyMappingRoundTrip ==
    \A i \in SuccessfulSubmits :
       LET sh == sh_calls[i].after
       IN  \A k \in CanonicalFieldKeys(sh.normalized_schema) :
              /\ k \in DOMAIN sh.key_mapping
              /\ normalize_text(sh.key_mapping[k]) = k

\* the calls that raised nothing
SuccessfulCalls == {i \in DOMAIN sh_calls : sh_calls[i].raised = NoErrorSH}

\* the original field keys a call submits, in the order they are taken
SubmittedKeys(call) ==
    IF call.op = "add_field" THEN <<call.name.v>>
    ELSE IF IsDocument(call.schema)
    THEN IterKeys(call.schema.v[K_properties].v, call.order)
    ELSE IterKeys(call.schema.v, call.order)

\* the last of the keys of a sequence that normalizes to a canonical key
RECURSIVE LastSpelling(_, _, _)
LastSpelling(keys, canonical, n) ==
    IF n = 0 THEN PyNone
    ELSE IF normalize_text(keys[n]) = canonical THEN keys[n]
    ELSE LastSpelling(keys, canonical, n - 1)

\* C16: over any sequence of submit_schema and add_field calls key_mapping
\* never loses an entry, and after a call each canonical key the call
\* submitted a spelling of maps to the last spelling submitted
C16_KeyMappingGrowsLastWins ==
    /\ \A i \in DOMAIN sh_calls :
          Keys(sh_calls[i].before.key_mapping) \subseteq Keys(sh_calls[i].after.key_mapping)
    /\ \A i \in SuccessfulCalls :
          LET keys == SubmittedKeys(sh_calls[i])
              km   == sh_calls[i].after.key_mapping
          IN  \A n \in DOMAIN keys :
                 LET canonical == normalize_text(keys[n])
                 IN  /\ canonical \in DOMAIN km
                     /\ km[canonical] = LastSpelling(keys, canonical, Len(keys))

\* C27: a submit_schema call that raises leaves original_schema,
\* normalized_schema and key_mapping as they were before the call
C27_FailedSubmitLeavesHandler ==
    \A i \in DOMAIN sh_calls :
       (sh_calls[i].op = "submit_schema" /\ sh_calls[i].raised # NoErrorSH) =>
          /\ sh_calls[i].after.original_schema = sh_calls[i].before.original_schema
          /\ sh_calls[i].after.normalized_schema = sh_calls[i].before.normalized_schema
          /\ sh_calls[i].after.key_mapping = sh_calls[i].before.key_mapping

\* the register_type calls that returned
RegisterTypeCalls ==
    {i \in DOMAIN sh_calls :
        sh_calls[i].op = "register_type" /\ sh_calls[i].raised = NoErrorSH}

\* C28: register_type(T, p) only adds the resolution of T to p: when p
\* names a built-in type already, get_type_from_field gives for a field
\* declared as p the type it gave before the call, and the type mapping
\* other instances read is unchanged
C28_RegisterTypeOnlyAdds ==
    \A i \in RegisterTypeCalls :
       LET p == sh_calls[i].schema
       IN  /\ p.v \in DOMAIN sh_calls[i].before.python_type_reverse_mapping =>
                get_type_from_field(sh_calls[i].after, p)
                   = get_type_from_field(sh_calls[i].before, p)
           /\ OtherInstanceTypeMapping(sh_calls[i].after)
                 = OtherInstanceTypeMapping(sh_calls[i].before)

(***************************************************************************)
(* Claims about the OpenAI_JSON client, checked under Spec                 *)
(***************************************************************************)
\* the calls whose response went through _process_response
ProcessedRequests == {i \in DOMAIN requests : requests[i].processed}

\* the data of the response of call i, a JSON object
OwnResponse(i) == requests[i].response.json.v

\* C2: every request starts from an empty accumulated state (no pass and no
\* entry of an earlier request), and the data its passes work on is the data
\* of its own response
C2_PerRequestState ==
    \A i \in ProcessedRequests :
       /\ requests[i].dm_before = DataManagerInit
       /\ requests[i].hp_input # NotCalled => requests[i].hp_input = OwnResponse(i)

\* the normalized schema a handler holds after the schema alone is submitted
NormalizedOf(schema) ==
    submit_schema(SchemaHandlerInit, schema, ClientOrder).sh.normalized_schema

\* the pairs of async_request calls that were in flight together, each with
\* a schema of its own, and whose responses were both processed
ConcurrentPairs ==
    {pair \in ProcessedRequests \X ProcessedRequests :
        /\ pair[1] \in requests[pair[2]].concurrent
        /\ \A i \in {pair[1], pair[2]} :
              /\ requests[i].kind = "async"
              /\ requests[i].schema \in {SchemaA, SchemaB}}

\* C3: of two async_request calls in flight together, each response is
\* reconciled against the schema passed with its own call, and the passes of
\* each work on the data of its own response only
C3_ConcurrentIsolation ==
    \A pair \in ConcurrentPairs : \A i \in {pair[1], pair[2]} :
       /\ requests[i].used_schema = NormalizedOf(requests[i].schema)
       /\ requests[i].hp_input # NotCalled => requests[i].hp_input = OwnResponse(i)

\* C5: a value the heuristic pass could not coerce, reported in its errors,
\* is in client.errors when the request ends, unless its key is matched
C5_UncoercibleStaysInErrors ==
    \A i \in ProcessedRequests :
       (requests[i].hp # NotCalled /\ requests[i].hp.raised = NoError) =>
          \A n \in DOMAIN requests[i].hp.errors :
             LET path == requests[i].hp.errors[n][1]
             IN  \/ path \in DOMAIN requests[i].errors_after
                 \/ path \in DOMAIN requests[i].matched_after

\* a schema argument that is no schema: an undecodable text, a value that is
\* no mapping, or a mapping the draft-7 metaschema rejects
IsInvalidSchema(schema) ==
    /\ schema # PyNone
    /\ LET decoded == IF schema.t = "str" THEN schema.json ELSE schema
       IN  \/ decoded = Undecodable
           \/ decoded.t # "dict"
           \/ ~Draft7Valid(decoded)

\* C9: request(query, schema) with a schema that is no schema raises to the
\* caller, calls the API not once and adds no pass
C9_InvalidSchemaRejected ==
    \A i \in DOMAIN requests :
       (requests[i].kind = "sync" /\ IsInvalidSchema(requests[i].schema)) =>
          /\ requests[i].outcome = "raised"
          /\ requests[i].calls = 0
          /\ requests[i].passes = 0

\* every call of the API made for request i failed with a retryable error:
\* a rate limit or a retryable status, or content that is not valid JSON
AllAttemptsRetryable(i) ==
    /\ requests[i].attempts # <<>>
    /\ \A j \in DOMAIN requests[i].attempts :
          /\ request_func(requests[i].attempts[j]).raised
          /\ request_func(requests[i].attempts[j]).retryable

NonRetryable(outcome) == outcome.kind \in {"fatal", "valueerror"}

\* the exception such an outcome is
RaisedBy(outcome) == IF outcome.kind = "valueerror" THEN "ValueError" ELSE "APIError"

\* C23: a call of the API that fails with a non-retryable error is the
\* last call of its send_query, which raises that same error, whatever
\* retries remain
C23_NonRetryableRaisedAtOnce ==
    \A i \in DOMAIN requests :
       \A j \in DOMAIN requests[i].attempts :
          NonRetryable(requests[i].attempts[j]) =>
             /\ j = Len(requests[i].attempts)
             /\ requests[i].pc = "done"
             /\ requests[i].calls = j
             /\ requests[i].send_error = RaisedBy(requests[i].attempts[j])

(***************************************************************************)
(* Claims about normalize_text, checked under SpecNT                       *)
(***************************************************************************)
\* C21: normalize_text is idempotent: normalizing a normalized text gives
\* the same text
C21_NormalizeIdempotent ==
    Len(nt_call.results) >= 2 => nt_call.results[2] = nt_call.results[1]

\* C21 witness: a text with CamelCase and a conjunction was normalized
\* twice, which changed it the first time
C21_Witness ==
    /\ nt_call.text = <<"a", "B", "&", "1">>
    /\ Len(nt_call.results) = 2
    /\ nt_call.results[1] = <<"a", "_", "b", "_", "a", "n", "d", "_", "1">>

\* the characters a normalized text is made of
NTNormalChars == Range(LowerLetters) \cup Digits \cup {"_"}

\* C22: what normalize_text returns is made of lowercase letters, digits
\* and "_" only, whatever punctuation the text holds, and the empty text
\* gives the empty text
C22_NormalizedAlphabet ==
    Len(nt_call.results) >= 1 =>
       /\ Range(nt_call.results[1]) \subseteq NTNormalChars
       /\ nt_call.text = <<>> => nt_call.results[1] = <<>>

(***************************************************************************)
(* Claims about the API interfaces, checked under SpecAPI                  *)
(***************************************************************************)
\* C30: whatever `retries` the interface is built with, 0 and negative
\* values included, send_query raises or returns a response that is valid
\* JSON; it never returns without a response
C30_SendQueryAnswersOrRaises ==
    \A i \in DOMAIN requests :
       \/ requests[i].outcome = "raised" /\ requests[i].send_error # ""
       \/ /\ requests[i].outcome = "returned"
          /\ requests[i].content # PyNone
          /\ requests[i].content.kind = "content"
          /\ requests[i].content.json # Undecodable

====
